---------------------------- MODULE Spec2Model ----------------------------
(***************************************************************************)
(* A model of src/rise-glossary.js (class RiseGlossary).                   *)
(*                                                                         *)
(* Strings are sequences of tokens.  A token is either a maximal run of    *)
(* word characters ([A-Za-z0-9_], what \b of a JavaScript regular          *)
(* expression delimits) or one non-word character.  Every string the       *)
(* program builds here keeps runs maximal, so a whole-word regular         *)
(* expression matches token by token.                                      *)
(***************************************************************************)
EXTENDS Integers, Sequences, FiniteSets, TLC

VARIABLES
    options,        \* this.options: the configuration the instance was built with
    phase,          \* where init() stands: "loading", "ready" or "failed"
    terms,          \* this.terms: the term index
    dom,            \* document.body and everything under it
    stylesheet,     \* TRUE while style#rise-glossary-styles is in the document
    observing,      \* TRUE once the MutationObserver watches document.body
    processingTimeout, \* the pending rescan timers of the observer, by handle
    activePopup,    \* this.activePopup: NoPopup or [element, trigger, term]
    rafQueue,       \* popups whose requestAnimationFrame callback is pending
    removalTimers,  \* popups whose deferred removal (hidePopup) is pending
    announceTimers, \* announcements whose removal timer is pending
    hideTimeout,    \* TRUE while the timer held in this.hideTimeout is pending
    strayTimers,    \* pending hover-exit timers no field refers to: the markers
                    \* whose mouseleave armed one, and how many a popup armed
    resizeTimeout,  \* the debounce timer of the resize handler is pending
    isTouch,        \* this.isTouch
    geo,            \* what the browser reports: viewport, scroll, rectangles
    pageText,       \* the text the host page put into the body, as it was put
    feeds,          \* the glossaries the host page and its server may hand over
    glossaryInput,  \* the entries last handed to loadTerms / updateTerms
    lastCall        \* the handler that ran last and the path it took

vars == <<options, phase, terms, dom, stylesheet, observing, processingTimeout,
          activePopup, rafQueue, removalTimers, announceTimers, hideTimeout,
          strayTimers, resizeTimeout, isTouch, geo, pageText, feeds, glossaryInput, lastCall>>

-----------------------------------------------------------------------------
(* Characters and tokens.                                                  *)

\* the characters that are not word characters of a regular expression
\* ("[times]" stands for the multiplication sign of the popup's close button)
NonWordChars == {" ", "<", ">", "/", "=", "\"", "-", ":", "+", "[times]"}

IsWordTok(t) == t \notin NonWordChars

\* word tokens that do not start with an ASCII letter
DigitToks == {"0", "1", "2", "3"}

IsAlphaStart(t) == IsWordTok(t) /\ t \notin DigitToks

\* String.prototype.toLowerCase on the tokens that have upper-case letters
Lowered == [API |-> "api", Api |-> "api", Term |-> "term", Machine |-> "machine"]

Lower(t) == IF t \in DOMAIN Lowered THEN Lowered[t] ELSE t

LowerAll(s) == <<>> \o [i \in 1..Len(s) |-> Lower(s[i])]

\* string.length
RECURSIVE StrLen(_)
StrLen(s) ==
    IF s = <<>> THEN 0
    ELSE (IF IsWordTok(Head(s)) THEN Len(Head(s)) ELSE 1) + StrLen(Tail(s))

\* string.trim()
RECURSIVE TrimLeft(_)
TrimLeft(s) == IF s # <<>> /\ Head(s) = " " THEN TrimLeft(Tail(s)) ELSE s

RECURSIVE TrimRight(_)
TrimRight(s) ==
    IF s # <<>> /\ s[Len(s)] = " " THEN TrimRight(SubSeq(s, 1, Len(s) - 1)) ELSE s

Trim(s) == TrimRight(TrimLeft(s))

SeqToSet(s) == {s[i] : i \in 1..Len(s)}

RECURSIVE Flatten(_)
Flatten(ss) == IF ss = <<>> THEN <<>> ELSE Head(ss) \o Flatten(Tail(ss))

-----------------------------------------------------------------------------
(* Glossary terms and the term index: loadTerms, updateTerms.              *)
(* A JSON field is "true", "false" or "unset" (absent).                    *)

NoTerm == [id |-> <<>>, word |-> <<>>, definition |-> <<>>,
           enabled |-> "unset", caseSensitive |-> "unset"]

Term(id, word, definition, enabled, caseSensitive) ==
    [id |-> id, word |-> word, definition |-> definition,
     enabled |-> enabled, caseSensitive |-> caseSensitive]

\* .filter(term => term.enabled !== false)
RECURSIVE FilterEnabled(_)
FilterEnabled(s) ==
    IF s = <<>> THEN <<>>
    ELSE (IF Head(s).enabled # "false" THEN << Head(s) >> ELSE <<>>)
         \o FilterEnabled(Tail(s))

\* the place of x in a list sorted by (a, b) => b.word.length - a.word.length:
\* before the first entry that is not longer than x (x came first in the input)
RECURSIVE InsertByLength(_, _)
InsertByLength(x, sorted) ==
    IF sorted = <<>> THEN << x >>
    ELSE IF StrLen(Head(sorted).word) <= StrLen(x.word) THEN << x >> \o sorted
    ELSE << Head(sorted) >> \o InsertByLength(x, Tail(sorted))

\* Array.prototype.sort with that comparator (a stable sort)
RECURSIVE SortByLength(_)
SortByLength(s) ==
    IF s = <<>> THEN <<>> ELSE InsertByLength(Head(s), SortByLength(Tail(s)))

\* a sort that lets a later entry of equal length overtake an earlier one
RECURSIVE InsertByLengthUnstable(_, _)
InsertByLengthUnstable(x, sorted) ==
    IF sorted = <<>> THEN << x >>
    ELSE IF StrLen(Head(sorted).word) < StrLen(x.word) THEN << x >> \o sorted
    ELSE << Head(sorted) >> \o InsertByLengthUnstable(x, Tail(sorted))

RECURSIVE SortByLengthUnstable(_)
SortByLengthUnstable(s) ==
    IF s = <<>> THEN <<>>
    ELSE InsertByLengthUnstable(Head(s), SortByLengthUnstable(Tail(s)))

BuildIndexUnstable(entries) == SortByLengthUnstable(FilterEnabled(entries))

\* this.terms = entries.filter(...).sort(...)
BuildIndex(entries) == SortByLength(FilterEnabled(entries))

-----------------------------------------------------------------------------
(* The matcher of processTextNode: new RegExp(`\\b${escapedWord}\\b`, flags)  *)
(* with escapedWord = escapeRegExp(term.word), which makes every character *)
(* of the word match itself.                                               *)

\* F of the value of v, with v worked out once
With(v, F(_)) == CHOOSE r \in { F(x) : x \in { v } } : TRUE

\* whether a word character stands at place i of content
WordAt(content, i) == i >= 1 /\ i <= Len(content) /\ IsWordTok(content[i])

\* \b just before place i
Boundary(content, i) == WordAt(content, i - 1) # WordAt(content, i)

\* term.caseSensitive ? 'g' : 'gi'
IgnoreCase(term) == term.caseSensitive # "true"

TokEq(a, b, ignoreCase) == IF ignoreCase THEN Lower(a) = Lower(b) ELSE a = b

\* the expression matches at place i of content
MatchAt(content, i, word, ignoreCase) ==
    /\ i + Len(word) - 1 <= Len(content)
    /\ Boundary(content, i)
    /\ Boundary(content, i + Len(word))
    /\ \A k \in 1..Len(word) : TokEq(content[i + k - 1], word[k], ignoreCase)

\* regex.test(content)
RegexTest(content, term) ==
    \E i \in 1..(Len(content) + 1) : MatchAt(content, i, term.word, IgnoreCase(term))

\* the replacement string of one match
Placeholder(term, match) ==
    << "<", "span", " ", "class", "=", "\"", "glossary", "-", "term", "-",
       "placeholder", "\"", " ", "data", "-", "term", "-", "id", "=", "\"" >>
    \o term.id \o << "\"", ">" >> \o match \o << "<", "/", "span", ">" >>

\* the first place from i on where the expression matches; 0 when there is none
NextMatch(content, i, term) ==
    LET at == {k \in i..(Len(content) + 1) :
                  MatchAt(content, k, term.word, IgnoreCase(term))}
    IN  IF at = {} THEN 0 ELSE CHOOSE k \in at : \A j \in at : k <= j

\* content.replace(regex, ...) from place i on: the matches from left to right,
\* none overlapping another; after an empty match the search moves on by one
RECURSIVE ReplaceFrom(_, _, _)
ReplaceFrom(content, from, term) ==
    With(<< from, NextMatch(content, from, term) >>, LAMBDA at :
    LET i == at[1]
        m == at[2]
    IN  IF m = 0 THEN SubSeq(content, i, Len(content))
        ELSE SubSeq(content, i, m - 1)
             \o Placeholder(term, SubSeq(content, m, m + Len(term.word) - 1))
             \o (IF term.word # <<>> THEN ReplaceFrom(content, m + Len(term.word), term)
                 ELSE IF m > Len(content) THEN <<>>
                 ELSE << content[m] >> \o ReplaceFrom(content, m + 1, term)))

\* the loop over sortedTerms: the content with its placeholders, and hasMatches
RECURSIVE TermLoop(_, _, _)
TermLoop(text, hasMatches, sortedTerms) == With(text, LAMBDA content :
    IF sortedTerms = <<>> THEN [content |-> content, hasMatches |-> hasMatches]
    ELSE IF RegexTest(content, Head(sortedTerms))
    THEN TermLoop(ReplaceFrom(content, 1, Head(sortedTerms)), TRUE, Tail(sortedTerms))
    ELSE TermLoop(content, hasMatches, Tail(sortedTerms)))

-----------------------------------------------------------------------------
(* DOM nodes.  Every node is a record of one shape.  processed is the      *)
(* node's membership in this.processedNodes; uid numbers the elements the  *)
(* program creates and refers to later (markers, popups, announcements).   *)

\* element.style before the program sets it
NoStyle == [position |-> "", top2 |-> 0, left2 |-> 0]

TextNode(data, processed) ==
    [type |-> "text", tag |-> <<>>, attrs |-> <<>>, kids |-> <<>>, data |-> data,
     processed |-> processed, listeners |-> {}, term |-> NoTerm, uid |-> 0,
     style |-> NoStyle]

Element(tag, attrs, kids) ==
    [type |-> "elem", tag |-> tag, attrs |-> attrs, kids |-> kids, data |-> <<>>,
     processed |-> FALSE, listeners |-> {}, term |-> NoTerm, uid |-> 0,
     style |-> NoStyle]

CommentNode(data) ==
    [type |-> "comment", tag |-> <<>>, attrs |-> <<>>, kids |-> <<>>, data |-> data,
     processed |-> FALSE, listeners |-> {}, term |-> NoTerm, uid |-> 0,
     style |-> NoStyle]

Attr(name, value) == [name |-> name, value |-> value]

Null == << "[null]" >>

\* el.getAttribute(name)
RECURSIVE GetAttr(_, _)
GetAttr(attrs, name) ==
    IF attrs = <<>> THEN Null
    ELSE IF Head(attrs).name = name THEN Head(attrs).value
    ELSE GetAttr(Tail(attrs), name)

HasAttr(attrs, name) == \E k \in 1..Len(attrs) : attrs[k].name = name

\* el.setAttribute(name, value)
SetAttr(attrs, name, value) ==
    IF HasAttr(attrs, name)
    THEN <<>> \o [k \in 1..Len(attrs) |->
             IF attrs[k].name = name THEN Attr(name, value) ELSE attrs[k]]
    ELSE Append(attrs, Attr(name, value))

\* a string split at its spaces, the empty pieces dropped
RECURSIVE SplitSpaces(_, _)
SplitSpaces(s, piece) ==
    IF s = <<>> THEN (IF piece = <<>> THEN {} ELSE {piece})
    ELSE IF Head(s) = " "
    THEN (IF piece = <<>> THEN {} ELSE {piece}) \cup SplitSpaces(Tail(s), <<>>)
    ELSE SplitSpaces(Tail(s), Append(piece, Head(s)))

\* el.classList.contains(class)
HasClass(n, class) ==
    /\ n.type = "elem"
    /\ HasAttr(n.attrs, << "class" >>)
    /\ class \in SplitSpaces(GetAttr(n.attrs, << "class" >>), <<>>)

\* two strings put together: the word characters that meet are one run
Join(a, b) ==
    IF a # <<>> /\ b # <<>> /\ IsWordTok(a[Len(a)]) /\ IsWordTok(Head(b))
    THEN SubSeq(a, 1, Len(a) - 1) \o << a[Len(a)] \o Head(b) >> \o Tail(b)
    ELSE a \o b

\* node.textContent
RECURSIVE TextContent(_)
RECURSIVE TextContentOf(_)
TextContent(ns) ==
    IF ns = <<>> THEN <<>> ELSE Join(TextContentOf(Head(ns)), TextContent(Tail(ns)))
TextContentOf(n) ==
    IF n.type = "text" THEN n.data
    ELSE IF n.type = "elem" THEN TextContent(n.kids)
    ELSE <<>>

-----------------------------------------------------------------------------
(* tempDiv.innerHTML = content: the HTML tokenizer, then the tree builder  *)
(* (fragment parsing in a div).  Covered: text, start and end tags with    *)
(* attributes, bogus comments, the end of the input inside a tag.  The     *)
(* strings of the model hold none of "&", "!", "?", "'" and no name of an  *)
(* element the tree builder treats specially.                              *)

HtmlToken(kind, name, attrs, data) ==
    [kind |-> kind, name |-> name, attrs |-> attrs, data |-> data]

\* the first place from i on that holds a character of set; past the end if none
NextIn(inp, i, set) ==
    LET at == {k \in i..Len(inp) : inp[k] \in set}
    IN  IF at = {} THEN Len(inp) + 1 ELSE CHOOSE k \in at : \A j \in at : k <= j

\* the first place from i on that holds no space
SkipSpaces(inp, i) ==
    LET at == {k \in i..Len(inp) : inp[k] # " "}
    IN  IF at = {} THEN Len(inp) + 1 ELSE CHOOSE k \in at : \A j \in at : k <= j

\* an attribute joins the tag, unless the tag has one of that name
AddAttr(attrs, name, value) ==
    IF HasAttr(attrs, name) THEN attrs ELSE Append(attrs, Attr(name, value))

\* the tokenizer inside a tag, from the "before attribute name" state at place i:
\* the attributes, the place after the tag's ">", and whether the ">" came
\* before the end of the input (a tag the input ends in is dropped)
RECURSIVE ReadAttrs(_, _, _)
ReadAttrs(inp, from, sofar) == With(<< from, sofar >>, LAMBDA at :
    LET i == at[1]
        attrs == at[2]
        j == SkipSpaces(inp, i)
        \* the attribute name runs from j to k - 1
        k == NextIn(inp, j + 1, {" ", "/", ">", "="})
        name == LowerAll(SubSeq(inp, j, k - 1))
        \* "after attribute name"
        e == SkipSpaces(inp, k)
        \* "before attribute value"
        v == SkipSpaces(inp, e + 1)
        q == NextIn(inp, v + 1, {"\""})
        u == NextIn(inp, v, {" ", ">"})
    IN  IF j > Len(inp) THEN [attrs |-> attrs, next |-> j, closed |-> FALSE]
        ELSE IF inp[j] = ">" THEN [attrs |-> attrs, next |-> j + 1, closed |-> TRUE]
        ELSE IF inp[j] = "/" THEN
            IF j + 1 <= Len(inp) /\ inp[j + 1] = ">"
            THEN [attrs |-> attrs, next |-> j + 2, closed |-> TRUE]
            ELSE ReadAttrs(inp, j + 1, attrs)
        ELSE IF e > Len(inp) THEN [attrs |-> attrs, next |-> e, closed |-> FALSE]
        ELSE IF inp[e] # "=" THEN ReadAttrs(inp, e, AddAttr(attrs, name, <<>>))
        ELSE IF v > Len(inp) THEN [attrs |-> attrs, next |-> v, closed |-> FALSE]
        ELSE IF inp[v] = "\"" THEN
            IF q > Len(inp) THEN [attrs |-> attrs, next |-> q, closed |-> FALSE]
            ELSE ReadAttrs(inp, q + 1, AddAttr(attrs, name, SubSeq(inp, v + 1, q - 1)))
        ELSE IF inp[v] = ">"
        THEN [attrs |-> AddAttr(attrs, name, <<>>), next |-> v + 1, closed |-> TRUE]
        ELSE IF u > Len(inp) THEN [attrs |-> attrs, next |-> u, closed |-> FALSE]
        ELSE ReadAttrs(inp, u, AddAttr(attrs, name, SubSeq(inp, v, u - 1))))

\* the tokenizer from the "data" state at place i: the tokens of the rest
RECURSIVE Tokenize(_, _)

\* a tag token is emitted at its ">"; the tag the input ends in is dropped
EmitTag(inp, kind, name, tag) ==
    IF tag.closed
    THEN << HtmlToken(kind, name, tag.attrs, <<>>) >> \o Tokenize(inp, tag.next)
    ELSE <<>>

\* a tag whose name runs from n to nameEnd - 1
ReadTag(inp, kind, n, nameEnd) ==
    With(ReadAttrs(inp, nameEnd, <<>>),
         LAMBDA tag : EmitTag(inp, kind, LowerAll(SubSeq(inp, n, nameEnd - 1)), tag))

Tokenize(inp, from) == With(from, LAMBDA i :
    LET lt == NextIn(inp, i, {"<"})
        \* a tag whose name starts at n
        n == IF i + 1 <= Len(inp) /\ inp[i + 1] = "/" THEN i + 2 ELSE i + 1
        kind == IF n = i + 2 THEN "end" ELSE "start"
        gt == NextIn(inp, n, {">"})
    IN  IF i > Len(inp) THEN <<>>
        ELSE IF lt > i
        THEN << HtmlToken("text", <<>>, <<>>, SubSeq(inp, i, lt - 1)) >> \o Tokenize(inp, lt)
        ELSE IF n > Len(inp)
        THEN << HtmlToken("text", <<>>, <<>>, SubSeq(inp, i, Len(inp))) >>
        ELSE IF IsAlphaStart(inp[n])
        THEN ReadTag(inp, kind, n, NextIn(inp, n, {" ", "/", ">"}))
        ELSE IF kind = "start"
        THEN << HtmlToken("text", <<>>, <<>>, << "<" >>) >> \o Tokenize(inp, i + 1)
        ELSE IF inp[n] = ">" THEN Tokenize(inp, n + 1)
        ELSE << HtmlToken("comment", <<>>, <<>>, SubSeq(inp, n, gt - 1)) >>
             \o Tokenize(inp, gt + 1))

\* the stack of open elements: a frame per element being filled
Frame(tag, attrs) == [tag |-> tag, attrs |-> attrs, kids |-> <<>>]

\* a node becomes the last child of the current element; text joins text
InsertNode(stack, n) ==
    LET kids == stack[Len(stack)].kids
    IN  IF n.type = "text" /\ kids # <<>> /\ kids[Len(kids)].type = "text"
        THEN [stack EXCEPT ![Len(stack)].kids[Len(kids)].data = Join(@, n.data)]
        ELSE [stack EXCEPT ![Len(stack)].kids = Append(@, n)]

\* the current element is closed
PopFrame(stack) ==
    LET f == stack[Len(stack)]
    IN  InsertNode(SubSeq(stack, 1, Len(stack) - 1), Element(f.tag, f.attrs, f.kids))

RECURSIVE PopTo(_, _)
PopTo(open0, k) ==
    With(open0, LAMBDA stack : IF Len(stack) < k THEN stack ELSE PopTo(PopFrame(stack), k))

RECURSIVE BuildTree(_, _, _)
BuildTree(toks, i, open0) == With(open0, LAMBDA stack :
    IF i > Len(toks) THEN PopTo(stack, 2)[1].kids
    ELSE LET tk == toks[i]
             open == {k \in 2..Len(stack) : stack[k].tag = tk.name}
         IN  CASE tk.kind = "text" ->
                    BuildTree(toks, i + 1, InsertNode(stack, TextNode(tk.data, FALSE)))
               [] tk.kind = "comment" ->
                    BuildTree(toks, i + 1, InsertNode(stack, CommentNode(tk.data)))
               [] tk.kind = "start" ->
                    BuildTree(toks, i + 1, Append(stack, Frame(tk.name, tk.attrs)))
               [] tk.kind = "end" ->
                    IF open = {} THEN BuildTree(toks, i + 1, stack)
                    ELSE BuildTree(toks, i + 1,
                                   PopTo(stack, CHOOSE k \in open : \A j \in open : j <= k)))

\* the children of tempDiv after tempDiv.innerHTML = content
ParseHtml(content) ==
    With(content, LAMBDA inp :
        With(Tokenize(inp, 1),
             LAMBDA toks : BuildTree(toks, 1, << Frame(<< "div" >>, <<>>) >>)))


-----------------------------------------------------------------------------
(* Scanning: shouldExcludeElement, createGlossaryElement, processTextNode, *)
(* processExistingContent.                                                 *)

Selector(kind, name) == [kind |-> kind, name |-> name]

ProcessedAttr == << "data", "-", "glossary", "-", "processed" >>
TermIdAttr == << "data", "-", "term", "-", "id" >>
MarkerClass == << "glossary", "-", "term" >>
PlaceholderClass == << "glossary", "-", "term", "-", "placeholder" >>
PopupClass == << "glossary", "-", "popup" >>

\* the default of options.excludeSelectors
DefaultExcludeSelectors ==
    << Selector("tag", << "script" >>), Selector("tag", << "style" >>),
       Selector("tag", << "code" >>), Selector("tag", << "pre" >>),
       Selector("class", MarkerClass), Selector("class", PopupClass),
       Selector("attr", ProcessedAttr) >>

\* element.matches(selector); a selector that is no selector throws, and the
\* catch of shouldExcludeElement answers false
Matches(el, sel) ==
    CASE sel.kind = "tag" -> el.tag = sel.name
      [] sel.kind = "class" -> HasClass(el, sel.name)
      [] sel.kind = "attr" -> HasAttr(el.attrs, sel.name)
      [] OTHER -> FALSE

\* some selector matches the element itself
MatchesAny(el, selectors) ==
    \E k \in 1..Len(selectors) : Matches(el, selectors[k])

IsMarker(n) == HasClass(n, MarkerClass)

\* createGlossaryElement(term, matchedText), with the listeners it attaches
CreateGlossaryElement(term, matchedText, opts, touchSeen) ==
    [Element(<< "span" >>,
             << Attr(<< "class" >>, MarkerClass),
                Attr(<< "tabindex" >>, << "0" >>),
                Attr(<< "role" >>, << "button" >>),
                Attr(<< "aria", "-", "describedby" >>,
                     << "glossary", "-", "popup", "-" >> \o term.id),
                Attr(<< "aria", "-", "label" >>,
                     matchedText \o << ":", " " >> \o term.definition),
                Attr(TermIdAttr, term.id) >>,
             IF matchedText = <<>> THEN <<>> ELSE << TextNode(matchedText, FALSE) >>)
     EXCEPT !.listeners =
                (IF opts.enableHover /\ ~touchSeen
                 THEN {"mouseenter", "mouseleave"} ELSE {})
                \cup (IF opts.enableTouch \/ opts.enableKeyboard THEN {"click"} ELSE {})
                \cup (IF opts.enableKeyboard THEN {"keydown"} ELSE {}),
            !.term = term]

\* this.terms.find(t => t.id === termId)
RECURSIVE FindTerm(_, _)
FindTerm(index, termId) ==
    IF index = <<>> THEN NoTerm
    ELSE IF Head(index).id = termId THEN Head(index)
    ELSE FindTerm(Tail(index), termId)

\* the forEach over tempDiv.querySelectorAll('.glossary-term-placeholder'): in
\* document order each placeholder whose term is found gives way to a marker
\* (a placeholder inside one already replaced is then outside tempDiv)
RECURSIVE ResolvePlaceholders(_, _, _, _)
ResolvePlaceholders(parsed, index, opts, touchSeen) == With(parsed, LAMBDA ns :
    <<>> \o [k \in 1..Len(ns) |->
        LET n == ns[k]
            term == FindTerm(index, GetAttr(n.attrs, TermIdAttr))
        IN  IF n.type # "elem" THEN n
            ELSE IF HasClass(n, PlaceholderClass) /\ HasAttr(n.attrs, TermIdAttr)
                    /\ term # NoTerm
            THEN CreateGlossaryElement(term, TextContentOf(n), opts, touchSeen)
            ELSE [n EXCEPT !.kids = ResolvePlaceholders(@, index, opts, touchSeen)]])

\* processTextNode(textNode): the nodes that stand in the text node's place
\* afterwards, and whether the parent was marked data-glossary-processed
Substitute(textNode, r, index, opts, touchSeen) ==
    IF r.hasMatches
    THEN [nodes |-> ResolvePlaceholders(ParseHtml(r.content), index, opts, touchSeen),
          matched |-> TRUE]
    ELSE [nodes |-> << [textNode EXCEPT !.processed = TRUE] >>, matched |-> FALSE]

ProcessTextNode(textNode, index, opts, touchSeen) ==
    IF textNode.processed THEN [nodes |-> << textNode >>, matched |-> FALSE]
    ELSE With(TermLoop(textNode.data, FALSE, index),
              LAMBDA r : Substitute(textNode, r, index, opts, touchSeen))

\* the acceptNode filter of the TreeWalker, for a text node whose parent is
\* excluded or not
AcceptNode(node, parentExcluded) ==
    /\ ~node.processed
    /\ ~parentExcluded
    /\ StrLen(Trim(node.data)) >= 2

\* processExistingContent() below element el: every text node the walker
\* accepted (on the tree as it stood) is handed to processTextNode
\* el once done[k] stands for what was done in place of its k-th child
Rebuilt(el, results) == With(results, LAMBDA done :
    [el EXCEPT !.kids = Flatten(<<>> \o [k \in 1..Len(done) |-> done[k].nodes]),
               !.attrs = IF \E k \in 1..Len(done) : done[k].matched
                         THEN SetAttr(@, ProcessedAttr, << "true" >>) ELSE @])

RECURSIVE ScanElement(_, _, _, _, _)

ScanChildren(el, excluded, index, opts, touchSeen) ==
    Rebuilt(el, <<>> \o [k \in 1..Len(el.kids) |->
                    LET n == el.kids[k]
                    IN  IF n.type = "text" /\ AcceptNode(n, excluded)
                        THEN ProcessTextNode(n, index, opts, touchSeen)
                        ELSE IF n.type = "elem"
                        THEN [nodes |-> << ScanElement(n, excluded, index, opts, touchSeen) >>,
                              matched |-> FALSE]
                        ELSE [nodes |-> << n >>, matched |-> FALSE]])

ScanElement(el, ancestorExcluded, index, opts, touchSeen) ==
    With(ancestorExcluded \/ MatchesAny(el, opts.excludeSelectors),
         LAMBDA excluded : ScanChildren(el, excluded, index, opts, touchSeen))

\* the elements of the tree below ns, in document order
RECURSIVE Elements(_)
Elements(ns) ==
    Flatten(<<>> \o [k \in 1..Len(ns) |->
                IF ns[k].type = "elem" THEN << ns[k] >> \o Elements(ns[k].kids)
                ELSE <<>>])

Markers(body) == SelectSeq(Elements(body.kids), IsMarker)

\* the numbers of the elements the program refers to
UidsIn(body) == {n.uid : n \in SeqToSet(Elements(body.kids))} \ {0}

\* the k-th number that is not in use
NthFree(used, k) ==
    CHOOSE u \in 1..(Cardinality(used) + k) :
        u \notin used /\ Cardinality({w \in 1..u : w \notin used}) = k

IsNewMarker(n) == IsMarker(n) /\ n.uid = 0

NewMarkerCount(ns) == Len(SelectSeq(Elements(ns), IsNewMarker))

\* the markers just created get their numbers, in document order
RECURSIVE NumberMarkers(_, _, _)
NumberMarkers(nodes, used, count) == With(<< nodes, count >>, LAMBDA at :
    LET ns == at[1]
        before == at[2]
    IN
    <<>> \o [k \in 1..Len(ns) |->
        LET n == ns[k]
            b == before + NewMarkerCount(SubSeq(ns, 1, k - 1))
        IN  IF n.type # "elem" THEN n
            ELSE [n EXCEPT !.uid = IF IsNewMarker(n) THEN NthFree(used, b + 1) ELSE @,
                           !.kids = NumberMarkers(@, used,
                                                  b + (IF IsNewMarker(n) THEN 1 ELSE 0))]])

\* whether the scan put an element into the tree (what the observer looks for)
AddedElements(before, after) ==
    Len(Elements(after.kids)) > Len(Elements(before.kids))

\* node.normalize() on the children ns: empty text nodes go, and a run of
\* text nodes becomes its first node
RECURSIVE Normalize(_)
Normalize(ns) ==
    IF ns = <<>> THEN <<>>
    ELSE LET h == Head(ns)
             rest == Normalize(Tail(ns))
         IN  IF h.type = "text" THEN
                 IF h.data = <<>> THEN rest
                 ELSE IF rest # <<>> /\ Head(rest).type = "text"
                 THEN << [h EXCEPT !.data = Join(@, Head(rest).data)] >> \o Tail(rest)
                 ELSE << h >> \o rest
             ELSE IF h.type = "elem" THEN << [h EXCEPT !.kids = Normalize(@)] >> \o rest
             ELSE << h >> \o rest

\* the loop of destroy() over querySelectorAll('.glossary-term'), below el:
\* each marker gives way to a text node of its text, and its parent is normalized
RECURSIVE UnwrapMarkers(_)
UnwrapMarkers(el) ==
    LET kids == <<>> \o [k \in 1..Len(el.kids) |->
                    LET n == el.kids[k]
                    IN  IF IsMarker(n) THEN TextNode(TextContentOf(n), FALSE)
                        ELSE IF n.type = "elem" THEN UnwrapMarkers(n)
                        ELSE n]
    IN  [el EXCEPT !.kids = IF \E k \in 1..Len(el.kids) : IsMarker(el.kids[k])
                            THEN Normalize(kids) ELSE kids]

\* a scan that, finding the index empty, takes the markers out again
ProcessExistingContentUndoing(body, index, opts, touchSeen, used) ==
    IF index = <<>> THEN UnwrapMarkers(body)
    ELSE [ScanElement(body, FALSE, index, opts, touchSeen)
          EXCEPT !.kids = NumberMarkers(@, used \cup UidsIn(body), 0)]

\* processExistingContent() on the whole document
ProcessExistingContent(body, index, opts, touchSeen, used) ==
    With(used \cup UidsIn(body), LAMBDA taken :
        [ScanElement(body, FALSE, index, opts, touchSeen)
         EXCEPT !.kids = NumberMarkers(@, taken, 0)])

-----------------------------------------------------------------------------
(* Popup geometry: positionPopup.  style.top and style.left are kept       *)
(* doubled (top2, left2), so that the halves of (width / 2) stay integers. *)

\* the fixed margin and viewport inset of positionPopup
Margin == 10

Rect(left, top, width, height) ==
    [left |-> left, top |-> top, width |-> width, height |-> height,
     right |-> left + width, bottom |-> top + height]

\* an auto branch that wants more room than the popup and its margin
AutoPositionStrict(tr, pr, vw, vh) ==
    LET spaceAbove == tr.top
        spaceBelow == vh - tr.bottom
        spaceLeft  == tr.left
        spaceRight == vw - tr.right
    IN  IF spaceBelow > pr.height + Margin THEN "bottom"
        ELSE IF spaceAbove > pr.height + Margin THEN "top"
        ELSE IF spaceRight > pr.width + Margin THEN "right"
        ELSE IF spaceLeft > pr.width + Margin THEN "left"
        ELSE "bottom"

\* the auto branch: the side chosen from the free space around the trigger
AutoPosition(tr, pr, vw, vh) ==
    LET spaceAbove == tr.top
        spaceBelow == vh - tr.bottom
        spaceLeft  == tr.left
        spaceRight == vw - tr.right
    IN  IF spaceBelow >= pr.height + Margin THEN "bottom"
        ELSE IF spaceAbove >= pr.height + Margin THEN "top"
        ELSE IF spaceRight >= pr.width + Margin THEN "right"
        ELSE IF spaceLeft >= pr.width + Margin THEN "left"
        ELSE "bottom"

\* positionPopup(triggerElement, popup): tr and g are what the browser
\* reports, mode is options.popupPosition
PositionPopup(tr, g, mode) ==
    LET pr == g.popupRect
        vw == g.innerWidth
        vh == g.innerHeight
        sx == g.pageXOffset
        sy == g.pageYOffset
        position == IF mode = "auto" THEN AutoPosition(tr, pr, vw, vh) ELSE mode
        top0 == CASE position = "top"    -> 2 * (tr.top + sy - pr.height - Margin)
                  [] position = "bottom" -> 2 * (tr.bottom + sy + Margin)
                  [] position = "left"   -> 2 * (tr.top + sy) + tr.height - pr.height
                  [] position = "right"  -> 2 * (tr.top + sy) + tr.height - pr.height
        left0 == CASE position = "top"    -> 2 * (tr.left + sx) + tr.width - pr.width
                   [] position = "bottom" -> 2 * (tr.left + sx) + tr.width - pr.width
                   [] position = "left"   -> 2 * (tr.left + sx - pr.width - Margin)
                   [] position = "right"  -> 2 * (tr.right + sx + Margin)
        left1 == IF left0 < 2 * Margin THEN 2 * Margin ELSE left0
        left2 == IF left1 + 2 * pr.width > 2 * (vw - Margin)
                 THEN 2 * (vw - pr.width - Margin) ELSE left1
        top1 == IF top0 < 2 * Margin THEN 2 * Margin ELSE top0
        top2 == IF top1 + 2 * pr.height > 2 * (vh + sy - Margin)
                THEN 2 * (vh + sy - pr.height - Margin) ELSE top1
    IN  [position |-> position, top2 |-> top2, left2 |-> left2]

-----------------------------------------------------------------------------
(* The popup controller: createPopup, showPopup, hidePopup,                *)
(* announceToScreenReader.  Its methods are functions of the state they    *)
(* touch, so that a handler calling another (showPopup calls hidePopup)    *)
(* is one step.                                                            *)

NoPopup == [element |-> 0, trigger |-> 0, term |-> NoTerm]

\* the names in a class attribute, in order
RECURSIVE ClassList(_, _)
ClassList(value, piece) ==
    IF value = <<>> THEN (IF piece = <<>> THEN <<>> ELSE << piece >>)
    ELSE IF Head(value) = " "
    THEN (IF piece = <<>> THEN <<>> ELSE << piece >>) \o ClassList(Tail(value), <<>>)
    ELSE ClassList(Tail(value), Append(piece, Head(value)))

RECURSIVE JoinSpaces(_)
JoinSpaces(names) ==
    IF names = <<>> THEN <<>>
    ELSE IF Len(names) = 1 THEN Head(names)
    ELSE Head(names) \o << " " >> \o JoinSpaces(Tail(names))

\* el.classList.add(name)
ClassAdd(el, name) ==
    IF HasClass(el, name) THEN el
    ELSE [el EXCEPT !.attrs =
             SetAttr(@, << "class" >>,
                     JoinSpaces(Append(ClassList(GetAttr(el.attrs, << "class" >>), <<>>),
                                       name)))]

\* el.classList.remove(name)
ClassRemove(el, name) ==
    IF ~HasClass(el, name) THEN el
    ELSE [el EXCEPT !.attrs =
             SetAttr(@, << "class" >>,
                     JoinSpaces(SelectSeq(ClassList(GetAttr(el.attrs, << "class" >>), <<>>),
                                          LAMBDA c : c # name)))]

\* f applied to the child of the body that has number uid, if it is there
OnChild(body, uid, f(_)) ==
    [body EXCEPT !.kids = <<>> \o [k \in 1..Len(body.kids) |->
                              IF body.kids[k].uid = uid THEN f(body.kids[k])
                              ELSE body.kids[k]]]

\* parent.removeChild(child), for the child of the body that has number uid
RemoveChild(body, uid) ==
    [body EXCEPT !.kids = SelectSeq(@, LAMBDA n : n.uid # uid)]

IsPopup(n) == HasClass(n, PopupClass)

\* the popup elements attached to the document
PopupsIn(body) == {n.uid : n \in {m \in SeqToSet(body.kids) : IsPopup(m)}}

\* createPopup(term): the element, its close button, the word and the
\* definition (escapeHtml, then innerHTML, give the text back as it was)
CreatePopup(term, uid) ==
    [Element(<< "div" >>,
             << Attr(<< "class" >>, PopupClass),
                Attr(<< "id" >>, << "glossary", "-", "popup", "-" >> \o term.id),
                Attr(<< "role" >>, << "tooltip" >>),
                Attr(<< "aria", "-", "live" >>, << "polite" >>) >>,
             << Element(<< "button" >>,
                        << Attr(<< "class" >>, << "glossary", "-", "popup", "-", "close" >>),
                           Attr(<< "aria", "-", "label" >>, << "Close", " ", "definition" >>),
                           Attr(<< "title" >>, << "Close" >>) >>,
                        << TextNode(<< "[times]" >>, FALSE) >>),
                Element(<< "div" >>,
                        << Attr(<< "class" >>, << "glossary", "-", "popup", "-", "word" >>) >>,
                        IF term.word = <<>> THEN <<>>
                        ELSE << TextNode(term.word, FALSE) >>),
                Element(<< "div" >>,
                        << Attr(<< "class" >>,
                                << "glossary", "-", "popup", "-", "definition" >>) >>,
                        IF term.definition = <<>> THEN <<>>
                        ELSE << TextNode(term.definition, FALSE) >>) >>)
     EXCEPT !.uid = uid, !.term = term]

\* the element announceToScreenReader(message) appends
Announcement(term, uid) ==
    [Element(<< "div" >>,
             << Attr(<< "aria", "-", "live" >>, << "polite" >>),
                Attr(<< "aria", "-", "atomic" >>, << "true" >>),
                Attr(<< "class" >>, << "sr", "-", "only" >>) >>,
             << TextNode(<< "Glossary", " ", "definition", " ", "for", " " >>
                         \o term.word \o << ":", " " >> \o term.definition, FALSE) >>)
     EXCEPT !.uid = uid]

\* the numbers some reference of the program still holds
UsedUids(s) ==
    UidsIn(s.dom) \cup s.rafQueue \cup s.removalTimers \cup s.announceTimers
    \cup s.strayTimers.marker
    \cup ({s.activePopup.element, s.activePopup.trigger} \ {0})

\* hidePopup() that does not stop when there is no active popup
HidePopupUnguarded(s) ==
    [s EXCEPT !.dom = OnChild(@, s.activePopup.element,
                              LAMBDA el : ClassRemove(el, << "active" >>)),
              !.removalTimers = @ \cup {s.activePopup.element},
              !.activePopup = NoPopup,
              !.hideTimeout = FALSE]

\* hidePopup()
HidePopupOp(s) ==
    IF s.activePopup = NoPopup THEN s
    ELSE [s EXCEPT !.dom = OnChild(@, s.activePopup.element,
                                   LAMBDA el : ClassRemove(el, << "active" >>)),
                   !.removalTimers = @ \cup {s.activePopup.element},
                   !.activePopup = NoPopup,
                   !.hideTimeout = FALSE]

\* showPopup(triggerElement, term): trigger is the marker's number, tr its
\* bounding rectangle
ShowPopupOp(s, trigger, term, tr, g, opts) ==
    LET h == HidePopupOp(s)
        p == NthFree(UsedUids(h) \cup {trigger}, 1)
        a == NthFree(UsedUids(h) \cup {trigger}, 2)
        placed == PositionPopup(tr, g, opts.popupPosition)
        popup == [ClassAdd(CreatePopup(term, p),
                           << "position", "-", placed.position >>)
                  EXCEPT !.style = placed,
                         !.listeners = {"mouseenter", "mouseleave", "keydown"}]
    IN  [h EXCEPT !.dom.kids = @ \o << popup, Announcement(term, a) >>,
                  !.activePopup = [element |-> p, trigger |-> trigger, term |-> term],
                  !.rafQueue = @ \cup {p},
                  !.announceTimers = @ \cup {a}]

-----------------------------------------------------------------------------
(* destroy() and the rest of the public API.                               *)

\* this.processedNodes = new WeakSet()
RECURSIVE ClearProcessed(_)
ClearProcessed(el) ==
    [el EXCEPT !.kids = <<>> \o [k \in 1..Len(el.kids) |->
                            IF el.kids[k].type = "elem" THEN ClearProcessed(el.kids[k])
                            ELSE [el.kids[k] EXCEPT !.processed = FALSE]]]

\* the text of what the host page put into the body
PageText(body) == TextContent(SelectSeq(body.kids, LAMBDA n : n.uid = 0))

-----------------------------------------------------------------------------
(* Bounds, and what the host page, the glossary file and the browser may   *)
(* hand to the program.                                                    *)

MaxMarkers == 3     \* markers in the document
MaxBlocks == 2      \* elements the host page puts into the body
MaxPopups == 2      \* popup elements attached or awaiting their removal timer
MaxFrames == 1      \* animation frames requested and not yet run
MaxAnnounce == 1    \* screen reader announcements in the document at once
MaxTimers == 1      \* pending timers nothing refers to, of each kind
MaxEntries == 4     \* entries of a glossary file
GridMax == 3        \* a trigger's corner runs from 0 to GridMax * Margin
MaxSize == 3        \* popup extents run from Margin to MaxSize * Margin

\* new RiseGlossary(given): the constructor's defaults
Constructor(given) ==
    [popupPosition |-> IF "popupPosition" \in DOMAIN given
                       THEN given.popupPosition ELSE "auto",
     caseSensitive |-> IF "caseSensitive" \in DOMAIN given
                       THEN given.caseSensitive ELSE FALSE,
     excludeSelectors |-> IF "excludeSelectors" \in DOMAIN given
                          THEN given.excludeSelectors ELSE DefaultExcludeSelectors,
     enableKeyboard |-> IF "enableKeyboard" \in DOMAIN given
                        THEN given.enableKeyboard # FALSE ELSE TRUE,
     enableTouch |-> IF "enableTouch" \in DOMAIN given
                     THEN given.enableTouch # FALSE ELSE TRUE,
     enableHover |-> IF "enableHover" \in DOMAIN given
                     THEN given.enableHover # FALSE ELSE TRUE]

DefaultOptions == Constructor([debugMode |-> FALSE])

\* a host that wants only code samples left alone
CodeOnlyOptions ==
    Constructor([excludeSelectors |-> << Selector("tag", << "code" >>) >>])

Positions == {"auto", "top", "bottom", "left", "right"}

Body(blocks) == Element(<< "body" >>, <<>>, blocks)

Block(tag, text) == Element(<< tag >>, <<>>, << TextNode(text, FALSE) >>)

PageBlocks ==
    { Block("p", << "the", " ", "API" >>),
      Block("p", << "a", "<", "n", " ", "API" >>),
      Block("code", << "the", " ", "API" >>) }

TermApi == Term(<< "1" >>, << "API" >>, << "an", " ", "interface" >>, "true", "unset")
TermThe == Term(<< "3" >>, << "the" >>, << "an", " ", "article" >>, "unset", "unset")
TermMachine == Term(<< "2" >>, << "machine" >>, << "a", " ", "device" >>, "unset", "unset")
TermLearning ==
    Term(<< "1" >>, << "machine", " ", "learning" >>, << "a", " ", "field" >>, "unset", "unset")
TermGlossary == Term(<< "1" >>, << "glossary" >>, << "a", " ", "list" >>, "unset", "unset")
TermTerm == Term(<< "2" >>, << "term" >>, << "a", " ", "word" >>, "unset", "unset")
TermOff == Term(<< "4" >>, << "end" >>, << "a", " ", "stop" >>, "false", "unset")
TermExact == Term(<< "5" >>, << "Api" >>, << "a", " ", "name" >>, "unset", "true")
TermLoose == Term(<< "6" >>, << "API" >>, << "an", " ", "interface" >>, "unset", "false")

\* glossary files
PageFeeds == { << TermApi >>, << TermThe >>, <<>> }

\* glossary files whose words meet each other or the placeholder markup
MatchFeeds ==
    { << TermApi >>, << TermMachine, TermLearning >>, << TermTerm, TermGlossary >>,
      << TermExact, TermOff >>, << TermThe, TermApi >> }

\* paragraph texts
MatchTexts ==
    { << "the", " ", "API" >>,
      << "Machine", " ", "learning", " ", "machine" >>,
      << "a", " ", "glossary" >>,
      << "a", " ", "glossary", " ", "term" >>,
      << "the", " ", "api", " ", "Api" >>,
      << "a", "<", "n", " ", "API" >>,
      << "API", " ", "<", "the", " ", "end" >>,
      << "the", " ", "end" >>,
      << "machine", "-", "learning" >> }

\* the sequences of at most n different entries out of pool
RECURSIVE Arrangements(_, _)
Arrangements(pool, n) ==
    IF n = 0 THEN { <<>> }
    ELSE LET shorter == Arrangements(pool, n - 1)
         IN  shorter \cup { Append(s, e) : s \in shorter, e \in pool }

Distinct(s) == \A i, j \in 1..Len(s) : i # j => s[i] # s[j]

IndexFeeds ==
    { s \in Arrangements({TermApi, TermThe, TermMachine, TermOff}, MaxEntries) :
        Distinct(s) }

-----------------------------------------------------------------------------
(* The state the controller's methods work on, and the actions.            *)

State ==
    [dom |-> dom, activePopup |-> activePopup, rafQueue |-> rafQueue,
     removalTimers |-> removalTimers, announceTimers |-> announceTimers,
     hideTimeout |-> hideTimeout, strayTimers |-> strayTimers]

SetState(s) ==
    /\ dom' = s.dom
    /\ activePopup' = s.activePopup
    /\ rafQueue' = s.rafQueue
    /\ removalTimers' = s.removalTimers
    /\ announceTimers' = s.announceTimers
    /\ hideTimeout' = s.hideTimeout
    /\ strayTimers' = s.strayTimers

popupVars == <<activePopup, rafQueue, removalTimers, announceTimers, hideTimeout,
               strayTimers>>

configVars == <<options, geo, feeds>>

envVars == <<options, geo, feeds, resizeTimeout>>

\* the handles setTimeout gives the observer: a new timer never has the handle
\* of a pending one
RescanTimerIds == 1..2

\* the handle of the next timer, with these pending
NewTimer(pending) ==
    CHOOSE t \in RescanTimerIds \ pending : \A u \in RescanTimerIds \ pending : t <= u

\* the MutationObserver callback, with pending rescan timers: when an element
\* was added, clearTimeout(this.processingTimeout) and a new timer
ObserverCallback(watching, pending, added) ==
    IF watching /\ added THEN { NewTimer(pending) } ELSE pending

\* the pending rescan timers after a handler that changed the tree from
\* before to after
Observed(before, after) ==
    ObserverCallback(observing, processingTimeout, AddedElements(before, after))

\* processExistingContent() on the document as it stands
Scanned(body, index) ==
    ProcessExistingContent(body, index, options, isTouch, UsedUids(State))

\* the fetch of loadTerms resolves with data, and init() runs to its end
InitCompletes ==
    /\ phase = "loading"
    /\ \E data \in feeds :
       \E index \in {BuildIndex(data)} :
       \E after \in {Scanned(dom, index)} :
          /\ Len(Markers(after)) <= MaxMarkers
          /\ glossaryInput' = data
          /\ terms' = index
          /\ dom' = after
          /\ processingTimeout' =
                ObserverCallback(TRUE, processingTimeout, AddedElements(dom, after))
    /\ phase' = "ready"
    /\ stylesheet' = TRUE
    /\ observing' = TRUE
    /\ lastCall' = "init"
    /\ UNCHANGED <<isTouch, pageText>>
    /\ UNCHANGED popupVars
    /\ UNCHANGED envVars

\* init() with the set-up calls ahead of the load: what a failing load would
\* leave behind if loadTerms were awaited last
InitFailsAfterSetup ==
    /\ phase = "loading"
    /\ phase' = "failed"
    /\ stylesheet' = TRUE
    /\ observing' = TRUE
    /\ lastCall' = "init:failed"
    /\ UNCHANGED <<terms, dom, processingTimeout, isTouch, pageText, glossaryInput>>
    /\ UNCHANGED popupVars
    /\ UNCHANGED envVars

\* the fetch fails, the response is not ok, or its body is no JSON: loadTerms
\* throws before this.terms is assigned, and the catch of init() logs the error
InitFails ==
    /\ phase = "loading"
    /\ phase' = "failed"
    /\ lastCall' = "init:failed"
    /\ UNCHANGED <<terms, dom, stylesheet, observing, processingTimeout, isTouch,
                   pageText, glossaryInput>>
    /\ UNCHANGED popupVars
    /\ UNCHANGED envVars

\* the host page appends an element to the body
AddContent ==
    /\ Len(SelectSeq(dom.kids, LAMBDA n : n.uid = 0)) < MaxBlocks
    /\ \E block \in PageBlocks :
          /\ dom' = [dom EXCEPT !.kids = Append(@, block)]
          /\ pageText' = Join(pageText, TextContentOf(block))
    /\ processingTimeout' = ObserverCallback(observing, processingTimeout, TRUE)
    /\ lastCall' = "addContent"
    /\ UNCHANGED <<phase, terms, stylesheet, observing, isTouch, glossaryInput>>
    /\ UNCHANGED popupVars
    /\ UNCHANGED envVars

\* the callback of the observer's debounce timer with handle t
RescanTimerOf(t) ==
    /\ t \in processingTimeout
    /\ \E after \in {Scanned(dom, terms)} :
          /\ Len(Markers(after)) <= MaxMarkers
          /\ dom' = after
          /\ processingTimeout' =
                ObserverCallback(observing, processingTimeout \ { t },
                                 AddedElements(dom, after))
    /\ lastCall' = "rescan"
    /\ UNCHANGED <<phase, terms, stylesheet, observing, isTouch, pageText, glossaryInput>>
    /\ UNCHANGED popupVars
    /\ UNCHANGED envVars

RescanTimerFires == \E t \in RescanTimerIds : RescanTimerOf(t)

\* the host page puts one block in the place of all it had put into the body
\* (a re-render), which the observer sees as an element added
ReplaceContent ==
    /\ dom.kids # <<>>
    /\ \A k \in 1..Len(dom.kids) : dom.kids[k].uid = 0
    /\ \E block \in PageBlocks :
          /\ dom' = [dom EXCEPT !.kids = << block >>]
          /\ pageText' = TextContentOf(block)
    /\ processingTimeout' = ObserverCallback(observing, processingTimeout, TRUE)
    /\ lastCall' = "addContent"
    /\ UNCHANGED <<phase, terms, stylesheet, observing, isTouch, glossaryInput>>
    /\ UNCHANGED popupVars
    /\ UNCHANGED envVars

\* refresh()
Refresh ==
    /\ \E after \in {Scanned(dom, terms)} :
          /\ Len(Markers(after)) <= MaxMarkers
          /\ dom' = after
          /\ processingTimeout' = Observed(dom, after)
    /\ lastCall' = "refresh"
    /\ UNCHANGED <<phase, terms, stylesheet, observing, isTouch, pageText, glossaryInput>>
    /\ UNCHANGED popupVars
    /\ UNCHANGED envVars

\* updateTerms(newTerms)
UpdateTerms ==
    /\ \E newTerms \in feeds :
       \E index \in {BuildIndex(newTerms)} :
       \E after \in {Scanned(ClearProcessed(dom), index)} :
          /\ Len(Markers(after)) <= MaxMarkers
          /\ glossaryInput' = newTerms
          /\ terms' = index
          /\ dom' = after
          /\ processingTimeout' = Observed(dom, after)
    /\ lastCall' = "updateTerms"
    /\ UNCHANGED <<phase, stylesheet, observing, isTouch, pageText>>
    /\ UNCHANGED popupVars
    /\ UNCHANGED envVars

\* destroy()
Destroy ==
    /\ LET h == HidePopupOp(State)
       IN  SetState([h EXCEPT !.dom = UnwrapMarkers(@)])
    /\ stylesheet' = FALSE
    /\ lastCall' = "destroy"
    /\ UNCHANGED <<phase, terms, observing, processingTimeout, isTouch, pageText,
                   glossaryInput>>
    /\ UNCHANGED envVars

-----------------------------------------------------------------------------
(* The popup's handlers and timers.                                        *)

\* what the browser reports to positionPopup
Geometry(vw, vh, sx, sy, pw, ph, tl, tt) ==
    [innerWidth |-> vw, innerHeight |-> vh, pageXOffset |-> sx, pageYOffset |-> sy,
     popupRect |-> Rect(0, 0, pw, ph), triggerRect |-> Rect(tl, tt, Margin, Margin)]

\* the window turned on its side; the trigger stays inside it
Rotated(g) ==
    LET fit(x, limit) == IF x + Margin > limit THEN limit - Margin ELSE x
    IN  [g EXCEPT !.innerWidth = g.innerHeight,
                  !.innerHeight = g.innerWidth,
                  !.triggerRect = Rect(fit(g.triggerRect.left, g.innerHeight),
                                       fit(g.triggerRect.top, g.innerWidth),
                                       Margin, Margin)]

\* a handler or timer callback that calls hidePopup()
CallHidePopup ==
    /\ SetState(HidePopupOp(State))
    /\ lastCall' = IF activePopup = NoPopup THEN "hidePopup:none" ELSE "hidePopup"

\* a handler that calls showPopup(e.currentTarget, term) on marker m
CallShowPopup(m) ==
    /\ Cardinality(PopupsIn(dom) \cup removalTimers) < MaxPopups
    /\ Cardinality(announceTimers) < MaxAnnounce
    /\ Cardinality(rafQueue) < MaxFrames
    /\ SetState(ShowPopupOp(State, m.uid, m.term, geo.triggerRect, geo, options))
    /\ processingTimeout' = ObserverCallback(observing, processingTimeout, TRUE)
    /\ lastCall' = "showPopup"

pageVars == <<phase, terms, stylesheet, observing, isTouch, pageText, glossaryInput,
              resizeTimeout>>

\* mouseenter on a marker
MarkerMouseEnter ==
    /\ \E m \in SeqToSet(Markers(dom)) :
          /\ "mouseenter" \in m.listeners
          /\ CallShowPopup(m)
    /\ UNCHANGED pageVars
    /\ UNCHANGED configVars

\* keydown of Enter or the space bar on a marker
MarkerKeydown ==
    /\ \E m \in SeqToSet(Markers(dom)) :
          /\ "keydown" \in m.listeners
          /\ CallShowPopup(m)
    /\ UNCHANGED pageVars
    /\ UNCHANGED configVars

\* a click listener without the test for the active popup's trigger: every
\* click shows
MarkerClickShowsOnly ==
    /\ \E m \in SeqToSet(Markers(dom)) :
          /\ "click" \in m.listeners
          /\ CallShowPopup(m)
    /\ UNCHANGED pageVars
    /\ UNCHANGED configVars

\* click on a marker: the active popup's trigger hides, any other shows
MarkerClick ==
    /\ \E m \in SeqToSet(Markers(dom)) :
          /\ "click" \in m.listeners
          /\ IF activePopup # NoPopup /\ activePopup.trigger = m.uid
             THEN CallHidePopup /\ UNCHANGED processingTimeout
             ELSE CallShowPopup(m)
    /\ UNCHANGED pageVars
    /\ UNCHANGED configVars

\* mouseleave on a marker starts a timer that no field refers to
MarkerMouseLeave ==
    /\ Cardinality(strayTimers.marker) < MaxTimers
    /\ \E m \in SeqToSet(Markers(dom)) :
          /\ "mouseleave" \in m.listeners
          /\ strayTimers' = [strayTimers EXCEPT !.marker = @ \cup {m.uid}]
    /\ lastCall' = "mouseleave"
    /\ UNCHANGED <<dom, activePopup, rafQueue, removalTimers, announceTimers, hideTimeout,
                   processingTimeout>>
    /\ UNCHANGED pageVars
    /\ UNCHANGED configVars

\* that timer's callback: e.currentTarget is null by now, so the popup is
\* hidden unless the pointer is over it
MarkerGraceFires ==
    /\ \E a \in strayTimers.marker, hovered \in BOOLEAN :
          LET s == [State EXCEPT !.strayTimers.marker = @ \ {a}]
          IN  IF activePopup # NoPopup /\ hovered
              THEN SetState(s) /\ lastCall' = "timer"
              ELSE /\ SetState(HidePopupOp(s))
                   /\ lastCall' = IF activePopup = NoPopup THEN "hidePopup:none"
                                  ELSE "hidePopup"
    /\ UNCHANGED processingTimeout
    /\ UNCHANGED pageVars
    /\ UNCHANGED configVars

\* click on the close button of an attached popup
PopupCloseClick ==
    /\ PopupsIn(dom) # {}
    /\ CallHidePopup
    /\ UNCHANGED processingTimeout
    /\ UNCHANGED pageVars
    /\ UNCHANGED configVars

\* Escape inside an attached popup: the popup's handler, then the document's
PopupKeydown ==
    /\ \E p \in SeqToSet(dom.kids) : IsPopup(p) /\ "keydown" \in p.listeners
    /\ CallHidePopup
    /\ UNCHANGED processingTimeout
    /\ UNCHANGED pageVars
    /\ UNCHANGED configVars

\* mouseenter on an attached popup: clearTimeout(this.hideTimeout)
PopupMouseEnter ==
    /\ \E p \in SeqToSet(dom.kids) : IsPopup(p) /\ "mouseenter" \in p.listeners
    /\ hideTimeout
    /\ hideTimeout' = FALSE
    /\ lastCall' = "mouseenter"
    /\ UNCHANGED <<dom, activePopup, rafQueue, removalTimers, announceTimers, strayTimers,
                   processingTimeout>>
    /\ UNCHANGED pageVars
    /\ UNCHANGED configVars

\* mouseleave on an attached popup: a new timer takes the field, and the one
\* the field held keeps running
PopupMouseLeave ==
    /\ \E p \in SeqToSet(dom.kids) : IsPopup(p) /\ "mouseleave" \in p.listeners
    /\ ~isTouch
    /\ hideTimeout => strayTimers.popup < MaxTimers
    /\ strayTimers' = IF hideTimeout THEN [strayTimers EXCEPT !.popup = @ + 1]
                      ELSE strayTimers
    /\ hideTimeout' = TRUE
    /\ lastCall' = "mouseleave"
    /\ UNCHANGED <<dom, activePopup, rafQueue, removalTimers, announceTimers,
                   processingTimeout>>
    /\ UNCHANGED pageVars
    /\ UNCHANGED configVars

\* the callback of the timer this.hideTimeout refers to
HideTimeoutFires ==
    /\ hideTimeout
    /\ SetState(HidePopupOp([State EXCEPT !.hideTimeout = FALSE]))
    /\ lastCall' = IF activePopup = NoPopup THEN "hidePopup:none" ELSE "hidePopup"
    /\ UNCHANGED processingTimeout
    /\ UNCHANGED pageVars
    /\ UNCHANGED configVars

\* the callback of a popup timer the field no longer refers to
StrayHideFires ==
    /\ strayTimers.popup > 0
    /\ SetState(HidePopupOp([State EXCEPT !.strayTimers.popup = @ - 1]))
    /\ lastCall' = IF activePopup = NoPopup THEN "hidePopup:none" ELSE "hidePopup"
    /\ UNCHANGED processingTimeout
    /\ UNCHANGED pageVars
    /\ UNCHANGED configVars

\* the document's click handler, for a click outside popups and markers
DocumentClick ==
    /\ phase = "ready"
    /\ CallHidePopup
    /\ UNCHANGED processingTimeout
    /\ UNCHANGED pageVars
    /\ UNCHANGED configVars

\* the document's keydown handler, for Escape
DocumentKeydown ==
    /\ phase = "ready"
    /\ CallHidePopup
    /\ UNCHANGED processingTimeout
    /\ UNCHANGED pageVars
    /\ UNCHANGED configVars

\* the document's touchstart handler
TouchStart ==
    /\ phase = "ready"
    /\ ~isTouch
    /\ isTouch' = TRUE
    /\ lastCall' = "touchstart"
    /\ UNCHANGED <<phase, terms, stylesheet, observing, pageText, glossaryInput,
                   resizeTimeout, dom, processingTimeout>>
    /\ UNCHANGED popupVars
    /\ UNCHANGED configVars

\* the requestAnimationFrame callback of showPopup, for popup p
AnimationFrame ==
    /\ \E p \in rafQueue :
          /\ dom' = OnChild(dom, p, LAMBDA el : ClassAdd(el, << "active" >>))
          /\ rafQueue' = rafQueue \ {p}
    /\ lastCall' = "timer"
    /\ UNCHANGED <<activePopup, removalTimers, announceTimers, hideTimeout, strayTimers,
                   processingTimeout>>
    /\ UNCHANGED pageVars
    /\ UNCHANGED configVars

\* a removal timer without the test of popup.parentNode: removeChild is
\* called on null when the popup is no longer attached
RemovalTimerUnguarded(p) ==
    /\ p \in removalTimers
    /\ dom' = RemoveChild(dom, p)
    /\ removalTimers' = removalTimers \ {p}
    /\ lastCall' = IF p \in PopupsIn(dom) THEN "timer" ELSE "fault"
    /\ UNCHANGED <<activePopup, rafQueue, announceTimers, hideTimeout, strayTimers,
                   processingTimeout>>
    /\ UNCHANGED pageVars
    /\ UNCHANGED configVars

\* the removal timer of hidePopup, for popup p: if (popup.parentNode) the
\* popup is taken out of its parent, and nothing is done otherwise
RemovalTimerOf(p) ==
    /\ p \in removalTimers
    /\ dom' = RemoveChild(dom, p)
    /\ removalTimers' = removalTimers \ {p}
    /\ lastCall' = IF p \in PopupsIn(dom) THEN "timer" ELSE "timer:detached"
    /\ UNCHANGED <<activePopup, rafQueue, announceTimers, hideTimeout, strayTimers,
                   processingTimeout>>
    /\ UNCHANGED pageVars
    /\ UNCHANGED configVars

RemovalTimerFires == \E p \in removalTimers : RemovalTimerOf(p)

\* the host page takes an attached popup out of the document (it renders its
\* content anew)
HostDetaches ==
    /\ \E p \in PopupsIn(dom) : dom' = RemoveChild(dom, p)
    /\ lastCall' = "hostDetaches"
    /\ UNCHANGED <<activePopup, rafQueue, removalTimers, announceTimers, hideTimeout,
                   strayTimers, processingTimeout>>
    /\ UNCHANGED pageVars
    /\ UNCHANGED configVars

\* the timer of announceToScreenReader, for announcement a
AnnouncementTimerFires ==
    /\ \E a \in announceTimers :
          /\ dom' = RemoveChild(dom, a)
          /\ announceTimers' = announceTimers \ {a}
    /\ lastCall' = "timer"
    /\ UNCHANGED <<activePopup, rafQueue, removalTimers, hideTimeout, strayTimers,
                   processingTimeout>>
    /\ UNCHANGED pageVars
    /\ UNCHANGED configVars

\* the window's resize handler (re)starts its debounce timer
WindowResize ==
    /\ phase = "ready"
    /\ geo' = Rotated(geo)
    /\ resizeTimeout' = TRUE
    /\ lastCall' = "resize"
    /\ UNCHANGED <<phase, terms, stylesheet, observing, isTouch, pageText, glossaryInput,
                   dom, processingTimeout, options, feeds>>
    /\ UNCHANGED popupVars

\* that timer's callback: the active popup is positioned again
ResizeTimerFires ==
    /\ resizeTimeout
    /\ resizeTimeout' = FALSE
    /\ dom' = IF activePopup = NoPopup THEN dom
              ELSE LET placed == PositionPopup(geo.triggerRect, geo, options.popupPosition)
                   IN  OnChild(dom, activePopup.element,
                               LAMBDA el : [ClassAdd(el, << "position", "-", placed.position >>)
                                            EXCEPT !.style = placed])
    /\ lastCall' = "positionPopup"
    /\ UNCHANGED <<phase, terms, stylesheet, observing, isTouch, pageText, glossaryInput,
                   processingTimeout>>
    /\ UNCHANGED popupVars
    /\ UNCHANGED configVars

-----------------------------------------------------------------------------
(* Specifications.  The state after the constructor: init() is waiting for *)
(* the glossary file, the page is as the host built it.                    *)

Constructed(given, blocks, files, g) ==
    /\ options = given
    /\ phase = "loading"
    /\ terms = <<>>
    /\ dom = Body(blocks)
    /\ stylesheet = FALSE
    /\ observing = FALSE
    /\ processingTimeout = {}
    /\ activePopup = NoPopup
    /\ rafQueue = {}
    /\ removalTimers = {}
    /\ announceTimers = {}
    /\ hideTimeout = FALSE
    /\ strayTimers = [marker |-> {}, popup |-> 0]
    /\ resizeTimeout = FALSE
    /\ isTouch = FALSE
    /\ geo = g
    /\ pageText = TextContent(blocks)
    /\ feeds = files
    /\ glossaryInput = <<>>
    /\ lastCall = "constructor"

\* a window wider than high, a small popup, the trigger near the top left
SomeGeometry == Geometry((GridMax + 2) * Margin, (GridMax + 1) * Margin, 0, 0,
                         2 * Margin, Margin, Margin, Margin)

Init ==
    \E given \in {DefaultOptions, CodeOnlyOptions}, b \in PageBlocks :
        Constructed(given, << b >>, PageFeeds, SomeGeometry)

PageNext ==
    \/ InitCompletes
    \/ InitFails
    \/ AddContent
    \/ RescanTimerFires
    \/ Refresh
    \/ UpdateTerms
    \/ Destroy

PopupNext ==
    \/ MarkerMouseEnter
    \/ MarkerKeydown
    \/ MarkerClick
    \/ MarkerMouseLeave
    \/ MarkerGraceFires
    \/ PopupCloseClick
    \/ PopupKeydown
    \/ PopupMouseEnter
    \/ PopupMouseLeave
    \/ HideTimeoutFires
    \/ StrayHideFires
    \/ DocumentClick
    \/ DocumentKeydown
    \/ AnimationFrame
    \/ RemovalTimerFires
    \/ AnnouncementTimerFires

WindowNext ==
    \/ TouchStart
    \/ WindowResize
    \/ ResizeTimerFires

Next == PageNext \/ PopupNext \/ WindowNext

Spec == Init /\ [][Next]_vars

\* the page's life without a pointer or a keyboard
SpecPage == Init /\ [][PageNext]_vars

\* one paragraph, one glossary file, and everything a user can do to a popup
InitPopup ==
    Constructed(DefaultOptions, << Block("p", << "the", " ", "API" >>) >>,
                { << TermApi >> }, SomeGeometry)

NextPopup == InitCompletes \/ PopupNext

SpecPopup == InitPopup /\ [][NextPopup]_vars

\* every paragraph text against every glossary file: the scan, then destroy()
InitMatch ==
    \E text \in MatchTexts :
        Constructed(DefaultOptions, << Block("p", text) >>, MatchFeeds, SomeGeometry)

NextMatch1 == InitCompletes \/ Destroy

SpecMatch == InitMatch /\ [][NextMatch1]_vars

\* every glossary file of at most MaxEntries entries, loaded and handed over
InitIndex ==
    Constructed(DefaultOptions, << Block("p", << "the", " ", "API" >>) >>,
                IndexFeeds, SomeGeometry)

NextIndex == InitCompletes \/ UpdateTerms

SpecIndex == InitIndex /\ [][NextIndex]_vars

\* what positionPopup is given: the window, how far it is scrolled, the
\* popup's extent, the trigger's place, and options.popupPosition
Geometries ==
    { Geometry((GridMax + 2) * Margin, (GridMax + 1) * Margin, sx, sy,
               pw * Margin, ph * Margin, tl * Margin, tt * Margin) :
        sx \in {0, 2 * Margin}, sy \in {0, 2 * Margin},
        pw \in 1..MaxSize, ph \in 1..MaxSize,
        tl \in 0..(GridMax + 1), tt \in 0..GridMax }

InitPlace ==
    \E g \in Geometries, mode \in Positions :
        Constructed(Constructor([popupPosition |-> mode]),
                    << Block("p", << "API" >>) >>, { << TermApi >> }, g)

\* the first popup of a page, and the window turned while it is shown
NextPlace ==
    \/ InitCompletes
    \/ (rafQueue = {} /\ MarkerKeydown)
    \/ WindowNext

SpecPlace == InitPlace /\ [][NextPlace]_vars

\* two markers in one paragraph, and a user who clicks and presses Escape
InitClick ==
    Constructed(DefaultOptions, << Block("p", << "the", " ", "API" >>) >>,
                { << TermThe, TermApi >> }, SomeGeometry)

NextClick ==
    \/ InitCompletes
    \/ MarkerClick
    \/ DocumentClick
    \/ DocumentKeydown
    \/ PopupKeydown
    \/ AnimationFrame
    \/ RemovalTimerFires
    \/ AnnouncementTimerFires

SpecClick == InitClick /\ [][NextClick]_vars

\* one marker, its popup shown, hidden and superseded, the host page taking
\* popups out of the document, and every removal timer firing in the end
PopupUids == 1..(MaxMarkers + 2 * MaxPopups + MaxAnnounce + MaxFrames)

NextHide ==
    \/ InitCompletes
    \/ MarkerClick
    \/ MarkerKeydown
    \/ DocumentKeydown
    \/ AnimationFrame
    \/ RemovalTimerFires
    \/ AnnouncementTimerFires
    \/ HostDetaches

SpecHide ==
    /\ InitPopup
    /\ [][NextHide]_vars
    /\ \A p \in PopupUids : WF_vars(RemovalTimerOf(p))

\* a page the host fills in bursts after init(), and the observer's timer,
\* which fires in the end
InitBurst ==
    \E blocks \in { <<>> } \cup { << b >> : b \in PageBlocks } :
        Constructed(DefaultOptions, blocks, PageFeeds, SomeGeometry)

NextBurst ==
    \/ InitCompletes
    \/ AddContent
    \/ ReplaceContent
    \/ RescanTimerFires

\* a timer that stays pending fires in the end; one that is cleared need not
SpecBurst ==
    /\ InitBurst
    /\ [][NextBurst]_vars
    /\ \A t \in RescanTimerIds : WF_vars(RescanTimerOf(t))

\* glossary files whose terms set caseSensitive or leave it to the option
CaseFeeds ==
    { << TermApi >>, << TermExact >>, << TermLoose >>, << TermThe, TermExact >> }

\* the option caseSensitive on and off, every paragraph text, these files
InitCase ==
    \E sensitive \in BOOLEAN, text \in MatchTexts :
        Constructed(Constructor([caseSensitive |-> sensitive]),
                    << Block("p", text) >>, CaseFeeds, SomeGeometry)

SpecCase == InitCase /\ [][NextMatch1]_vars

\* an entry whose word is the empty string
TermEmpty == Term(<< "5" >>, <<>>, << "a", " ", "gap" >>, "unset", "unset")

\* glossary files with and without that entry; no other entry of a file that
\* has it matches a text of EmptyTexts
EmptyFeeds ==
    { << TermEmpty >>, << TermGlossary, TermEmpty >>, << TermEmpty, TermTerm >>,
      << TermApi >>, << TermThe >>, << TermMachine >>, <<>> }

\* paragraph texts of one word or none, with and without other characters
EmptyTexts ==
    { << "API" >>, << "the" >>, << "machine" >>, << "-", "API" >>, << "the", "-" >>,
      << "-", "-" >>, << ":", "-", ":" >>, << " ", "API", " " >>, << "+", "the", "+" >> }

InitEmpty ==
    \E text \in EmptyTexts :
        Constructed(DefaultOptions, << Block("p", text) >>, EmptyFeeds, SomeGeometry)

SpecEmpty == InitEmpty /\ [][NextMatch1]_vars

\* a host whose exclusion list starts with a string that is no selector
FaultyOptions ==
    Constructor([excludeSelectors |->
                    << Selector("invalid", << "[" >>), Selector("tag", << "code" >>) >>])

\* blocks whose text the walker rejects, for its length or for where it
\* stands, and one whose text it accepts
SkipBlocks ==
    { Block("p", << "a" >>),
      Block("p", << " ", "a", " " >>),
      Block("p", << " ", " " >>),
      Block("pre", << "the", " ", "API" >>),
      Block("style", << "the", " ", "API" >>),
      Element(<< "pre" >>, <<>>, << Block("b", << "the", " ", "API" >>) >>),
      Block("p", << "the", " ", "API" >>) }

InitSkip ==
    \E given \in {DefaultOptions, FaultyOptions}, b \in SkipBlocks :
        Constructed(given, << b >>, { << TermApi >>, << TermThe >> }, SomeGeometry)

NextSkip ==
    \/ InitCompletes
    \/ AddContent
    \/ RescanTimerFires
    \/ Refresh
    \/ MarkerKeydown

SpecSkip == InitSkip /\ [][NextSkip]_vars

\* a page the host changes a bounded number of times, under the default
\* exclusion list and under a list of the host's own; every rescan timer that
\* stays pending fires in the end
InitQuiet ==
    \E given \in {DefaultOptions, CodeOnlyOptions}, b \in PageBlocks :
        Constructed(given, << b >>, PageFeeds, SomeGeometry)

NextQuiet ==
    \/ InitCompletes
    \/ AddContent
    \/ RescanTimerFires

SpecQuiet ==
    /\ InitQuiet
    /\ [][NextQuiet]_vars
    /\ \A t \in RescanTimerIds : WF_vars(RescanTimerOf(t))

\* one marker whose popup is shown and hidden while the observer's rescan
\* timers fire, before or after the timers of the popup and of the announcement
InitTip ==
    \E given \in {DefaultOptions, CodeOnlyOptions} :
        Constructed(given, << Block("p", << "the", " ", "API" >>) >>,
                    { << TermApi >> }, SomeGeometry)

NextTip ==
    \/ InitCompletes
    \/ MarkerKeydown
    \/ DocumentKeydown
    \/ RescanTimerFires
    \/ AnimationFrame
    \/ RemovalTimerFires
    \/ AnnouncementTimerFires

SpecTip == InitTip /\ [][NextTip]_vars


\* an instance the host destroys at any moment, before or after the glossary
\* file has come, while the page, the listeners, the observer and the timers
\* go on; every rescan timer that stays pending fires in the end
InitFinal ==
    Constructed(DefaultOptions, << Block("p", << "the", " ", "API" >>) >>,
                { << TermApi >> }, SomeGeometry)

NextFinal ==
    \/ InitCompletes
    \/ Destroy
    \/ AddContent
    \/ RescanTimerFires
    \/ MarkerKeydown
    \/ DocumentClick
    \/ DocumentKeydown
    \/ AnimationFrame
    \/ RemovalTimerFires
    \/ AnnouncementTimerFires

SpecFinal ==
    /\ InitFinal
    /\ [][NextFinal]_vars
    /\ \A t \in RescanTimerIds : WF_vars(RescanTimerOf(t))

\* two markers, the pointer leaving one of them, and a popup shown through the
\* other by the pointer, a click or the keyboard, before or after the first
\* marker's grace timer fires
InitGrace ==
    Constructed(DefaultOptions, << Block("p", << "the", " ", "API" >>) >>,
                { << TermThe, TermApi >> }, SomeGeometry)

NextGrace ==
    \/ InitCompletes
    \/ MarkerMouseEnter
    \/ MarkerMouseLeave
    \/ MarkerGraceFires
    \/ MarkerClick
    \/ MarkerKeydown
    \/ AnimationFrame
    \/ RemovalTimerFires
    \/ AnnouncementTimerFires

SpecGrace == InitGrace /\ [][NextGrace]_vars

-----------------------------------------------------------------------------
(* The popup: claims C1 and C5, checked under SpecPopup.                   *)

\* C1: for any sequence of showPopup and hidePopup calls and removal timers,
\* fired or pending, at most one popup element is attached to the document
\* at every instant.
C1_AtMostOnePopupAttached == Cardinality(PopupsIn(dom)) <= 1

\* C5: hidePopup() called while there is no active popup changes nothing in
\* the document, schedules no removal timer and leaves the Active Popup
\* record empty; and since every hidePopup() leaves the record empty, a second
\* call in a row is such a call.
C5_HidePopupNoOp ==
    [][/\ lastCall' = "hidePopup:none" =>
              /\ activePopup = NoPopup
              /\ dom' = dom
              /\ removalTimers' = removalTimers
              /\ activePopup' = NoPopup
       /\ lastCall' = "hidePopup" => activePopup' = NoPopup]_vars

\* hidePopup() was called with no active popup while the popup hidden before
\* is still attached, waiting for its removal timer
C5_HiddenTwice ==
    /\ lastCall = "hidePopup:none"
    /\ PopupsIn(dom) # {}
    /\ removalTimers # {}


-----------------------------------------------------------------------------
(* Placement: claims C7 and C8, checked under SpecPlace.                   *)

\* the element of the active popup
ActivePopupElement == CHOOSE n \in SeqToSet(dom.kids) : n.uid = activePopup.element

\* positionPopup has just run on the active popup, with the geometry of geo
JustPositioned == activePopup # NoPopup /\ lastCall \in {"showPopup", "positionPopup"}

\* the free space on a side of the trigger, and the popup's extent on that axis
FreeSpace(g, side) ==
    CASE side = "bottom" -> g.innerHeight - g.triggerRect.bottom
      [] side = "top"    -> g.triggerRect.top
      [] side = "right"  -> g.innerWidth - g.triggerRect.right
      [] side = "left"   -> g.triggerRect.left

Extent(g, side) ==
    IF side \in {"bottom", "top"} THEN g.popupRect.height ELSE g.popupRect.width

SideOrder == << "bottom", "top", "right", "left" >>

FittingSides(g) == {k \in 1..4 : Extent(g, SideOrder[k]) + 10 <= FreeSpace(g, SideOrder[k])}

\* C7: in auto placement mode the chosen side is the first that fits in the
\* order bottom, top, right, left (the popup's extent on that axis plus 10 is
\* at most the free space on that side), and bottom when no side fits.
C7_AutoPlacementFirstFit ==
    (JustPositioned /\ options.popupPosition = "auto") =>
        ActivePopupElement.style.position =
            IF FittingSides(geo) = {} THEN "bottom"
            ELSE SideOrder[CHOOSE k \in FittingSides(geo) : \A j \in FittingSides(geo) : k <= j]

\* auto placement chose top: too little space below, enough above
C7_TopChosen ==
    /\ JustPositioned
    /\ options.popupPosition = "auto"
    /\ FreeSpace(geo, "bottom") < Extent(geo, "bottom") + 10
    /\ FreeSpace(geo, "top") >= Extent(geo, "top") + 10
    /\ ActivePopupElement.style.position = "top"

\* C8: after positionPopup, for every trigger rectangle, popup size, viewport
\* size, scroll offset and placement mode, the popup's rectangle lies at least
\* 10 units inside every edge of the viewport (stated for the popups that
\* are small enough to lie so; style.left and style.top are page coordinates).
C8_InsideViewport ==
    (/\ JustPositioned
     /\ geo.popupRect.width + 20 <= geo.innerWidth
     /\ geo.popupRect.height + 20 <= geo.innerHeight) =>
        LET left2 == ActivePopupElement.style.left2 - 2 * geo.pageXOffset
            top2 == ActivePopupElement.style.top2 - 2 * geo.pageYOffset
        IN  /\ left2 >= 2 * 10
            /\ left2 + 2 * geo.popupRect.width <= 2 * (geo.innerWidth - 10)
            /\ top2 >= 2 * 10
            /\ top2 + 2 * geo.popupRect.height <= 2 * (geo.innerHeight - 10)


-----------------------------------------------------------------------------
(* The term index: claim C6, checked under SpecIndex.                      *)

\* the place of entry t in the sequence s that holds it once
PlaceIn(s, t) == CHOOSE k \in 1..Len(s) : s[k] = t

\* index holds exactly the entries of input whose enabled flag is not false,
\* by descending word length, entries of equal word length in input order
IsIndexOf(index, input) ==
    /\ \A k \in 1..Len(input) :
          (input[k].enabled # "false") <=> (\E i \in 1..Len(index) : index[i] = input[k])
    /\ \A i \in 1..Len(index) : \E k \in 1..Len(input) : index[i] = input[k]
    /\ \A i, j \in 1..Len(index) :
          i < j => \/ StrLen(index[i].word) > StrLen(index[j].word)
                   \/ /\ StrLen(index[i].word) = StrLen(index[j].word)
                      /\ PlaceIn(input, index[i]) < PlaceIn(input, index[j])

\* C6: after the glossary is loaded and after every updateTerms call, the term
\* index is exactly the input entries whose enabled flag is not false, ordered
\* by descending word length, entries of equal word length in their original
\* relative order.
C6_IndexFilteredAndSorted ==
    lastCall \in {"init", "updateTerms"} => IsIndexOf(terms, glossaryInput)

\* updateTerms was handed a file with an entry switched off, two entries of
\* one word length, and a longer entry behind them
C6_FilteredTieReordered ==
    /\ lastCall = "updateTerms"
    /\ Len(terms) < Len(glossaryInput)
    /\ \E i, j \in 1..Len(terms) :
          i < j /\ StrLen(terms[i].word) = StrLen(terms[j].word)
    /\ \E i, j \in 1..Len(glossaryInput) :
          /\ i < j
          /\ glossaryInput[i].enabled # "false"
          /\ StrLen(glossaryInput[i].word) < StrLen(glossaryInput[j].word)


-----------------------------------------------------------------------------
(* Matching and the round trip: claims C2 and C4, checked under SpecMatch. *)

\* pat stands at place i of content
StartsAt(content, i, pat) ==
    /\ i + Len(pat) - 1 <= Len(content)
    /\ SubSeq(content, i, i + Len(pat) - 1) = pat

PlaceholderOpen ==
    << "<", "span", " ", "class", "=", "\"", "glossary", "-", "term", "-",
       "placeholder", "\"" >>

PlaceholderClose == << "<", "/", "span", ">" >>

\* place i of content lies in a placeholder: in its markup or in the text
\* it encloses
InPlaceholder(content, i) ==
    \E a \in 1..i :
        /\ StartsAt(content, a, PlaceholderOpen)
        /\ \A c \in a..(i - 1) :
              StartsAt(content, c, PlaceholderClose) => c + Len(PlaceholderClose) > i

\* the content the k-th term of index is matched against
ContentBefore(text, index, k) == TermLoop(text, FALSE, SubSeq(index, 1, k - 1)).content

\* C2: scanning a text node never produces two overlapping matches: no term
\* processed later matches anywhere inside the span or the placeholder markup
\* an earlier, longer term has claimed.
C2_NoMatchInsideClaimed ==
    lastCall = "init" =>
        \A k \in 1..Len(terms) :
            \A i \in 1..(Len(ContentBefore(pageText, terms, k)) + 1) :
                MatchAt(ContentBefore(pageText, terms, k), i, terms[k].word,
                        IgnoreCase(terms[k]))
                => ~InPlaceholder(ContentBefore(pageText, terms, k), i)

\* C4: scanning the paragraph and then calling destroy() leaves the
\* paragraph's text equal, character for character, to its text before the
\* scan, and leaves no marker in the document.
C4_DestroyRestoresText ==
    (lastCall = "destroy" /\ phase = "ready") =>
        /\ PageText(dom) = pageText
        /\ Markers(dom) = <<>>


-----------------------------------------------------------------------------
(* Scans of the page: claims C3, C9 and C10, checked under SpecPage.       *)

\* the markers of the document by their numbers, in document order
MarkerIds(body) == <<>> \o [k \in 1..Len(Markers(body)) |-> Markers(body)[k].uid]

\* the handlers that end in processExistingContent()
ScanCalls == {"init", "refresh", "rescan", "updateTerms"}

\* C3: a scan (refresh, or the observer's rescan) of a document that has not
\* changed since the scan before it creates no additional marker.
C3_SecondScanAddsNoMarker ==
    [][(lastCall \in ScanCalls /\ lastCall' \in {"refresh", "rescan"})
          => Len(Markers(dom')) = Len(Markers(dom))]_vars

RECURSIVE OpenTexts(_, _)
OpenTexts(el, selectors) ==
    IF IsMarker(el) \/ MatchesAny(el, selectors) THEN <<>>
    ELSE Flatten(<<>> \o [k \in 1..Len(el.kids) |->
                    IF el.kids[k].type = "text" THEN << el.kids[k].data >>
                    ELSE IF el.kids[k].type = "elem" THEN OpenTexts(el.kids[k], selectors)
                    ELSE <<>>])

HostSelectors(opts) ==
    SelectSeq(opts.excludeSelectors, LAMBDA sel : sel # Selector("attr", ProcessedAttr))

\* C10: when updateTerms returns, every whole-word occurrence of a term of the
\* new index in non-excluded page text is wrapped in a marker.
C10_EveryOccurrenceWrapped ==
    lastCall = "updateTerms" =>
        \A k \in 1..Len(OpenTexts(dom, HostSelectors(options))) :
            \A t \in 1..Len(terms) :
                ~RegexTest(OpenTexts(dom, HostSelectors(options))[k], terms[t])

-----------------------------------------------------------------------------
(* A failed load: claim C11, checked under SpecPage.                       *)

\* C11: when the glossary load fails, init() is aborted in its catch (which
\* logs the failure) and leaves no partial state: the failing step changes
\* neither the term index nor the document, no stylesheet, document listener
\* or mutation observer is installed and no rescan is pending, and on an
\* instance nothing else was called on the index is empty and no marker exists.
C11_FailedLoadLeavesNothing ==
    [][lastCall' = "init:failed" =>
          /\ phase' = "failed"
          /\ terms' = terms
          /\ dom' = dom
          /\ ~stylesheet'
          /\ ~observing'
          /\ processingTimeout' = {}
          /\ lastCall = "constructor" =>
                /\ terms' = <<>>
                /\ Markers(dom') = <<>>
                /\ PopupsIn(dom') = {}]_vars

\* the load has failed on a page that holds a word of the glossary file
C11_LoadFailed ==
    /\ lastCall = "init:failed"
    /\ phase = "failed"
    /\ \E data \in feeds : \E t \in 1..Len(data) :
          RegexTest(pageText, data[t])

-----------------------------------------------------------------------------
(* What a scan makes of a paragraph: claim C12, checked under SpecMatch.   *)

\* marker m wraps one whole-word occurrence of term: its text is the surface
\* text, its label the text, ": " and the definition, and aria-describedby
\* names the popup showPopup creates for the term
MarkerOf(m, term) ==
    LET text == TextContent(m.kids)
    IN  /\ \A k \in 1..Len(m.kids) : m.kids[k].type = "text"
        /\ Len(text) = Len(term.word)
        /\ text # <<>>
        /\ MatchAt(text, 1, term.word, IgnoreCase(term))
        /\ GetAttr(m.attrs, << "aria", "-", "label" >>)
              = text \o << ":", " " >> \o term.definition
        /\ GetAttr(m.attrs, << "aria", "-", "describedby" >>)
              = GetAttr(CreatePopup(term, 0).attrs, << "id" >>)

\* C12: scanning a paragraph's text wraps each whole-word occurrence of a
\* term of the index in exactly one marker with the surface text, the label
\* and the popup reference of that term, and leaves every other character
\* as plain text in its place: the paragraph then holds only text nodes and
\* such markers, its text is the text it had, and no plain text of it still
\* holds an occurrence of a term.
C12_OccurrencesWrappedRestPlain ==
    lastCall = "init" =>
        LET p == dom.kids[1]
        IN  /\ TextContent(p.kids) = pageText
            /\ \A k \in 1..Len(p.kids) :
                  \/ /\ p.kids[k].type = "text"
                     /\ \A t \in 1..Len(terms) : ~RegexTest(p.kids[k].data, terms[t])
                  \/ /\ IsMarker(p.kids[k])
                     /\ \E t \in 1..Len(terms) : MarkerOf(p.kids[k], terms[t])

-----------------------------------------------------------------------------
(* Click, Escape and the click outside: claim C13, checked under SpecClick. *)

\* the text of the part of popup e that has class glossary-popup-<part>
PopupPart(e, part) ==
    TextContent(SelectSeq(e.kids,
                          LAMBDA n : HasClass(n, << "glossary", "-", "popup", "-", part >>)))

\* e is the popup of marker m's term, title and body
PopupShows(e, m) ==
    /\ IsPopup(e)
    /\ PopupPart(e, "word") = m.term.word
    /\ PopupPart(e, "definition") = m.term.definition

\* C13: a click on a marker that is not the active popup's trigger makes the
\* popup of that marker's term (title its word, body its definition) the
\* active popup; a click on the active popup's trigger, Escape, or a click
\* outside popups and markers leaves no active popup, the popup hidden
\* losing its active state and waiting for its removal.
C13_ClickShowsEscapeHides ==
    [][/\ MarkerClick =>
          /\ activePopup = NoPopup => activePopup' # NoPopup
          /\ activePopup # NoPopup =>
                (activePopup' = NoPopup \/ activePopup'.trigger # activePopup.trigger)
          /\ activePopup' # NoPopup =>
                \E m \in SeqToSet(Markers(dom)) : \E e \in SeqToSet(dom'.kids) :
                    /\ m.uid = activePopup'.trigger
                    /\ activePopup'.term = m.term
                    /\ e.uid = activePopup'.element
                    /\ PopupShows(e, m)
       /\ ((DocumentKeydown \/ DocumentClick \/ PopupKeydown)
            \/ (MarkerClick /\ activePopup' = NoPopup)) =>
          /\ activePopup' = NoPopup
          /\ activePopup # NoPopup =>
                /\ activePopup.element \in removalTimers'
                /\ \A e \in SeqToSet(dom'.kids) :
                      e.uid = activePopup.element => ~HasClass(e, << "active" >>)]_vars

\* the popup of one marker was open, a click on the other marker has made
\* that marker's popup the active one
C13_SwitchedByClick ==
    /\ lastCall = "showPopup"
    /\ activePopup # NoPopup
    /\ Cardinality(PopupsIn(dom)) = 2
    /\ \E e \in SeqToSet(dom.kids) :
          IsPopup(e) /\ e.uid # activePopup.element /\ e.term # activePopup.term

-----------------------------------------------------------------------------
(* The option caseSensitive: claim C14, checked under SpecCase.            *)

\* whether term is to be matched case-sensitively: by its own caseSensitive
\* when it sets one, by the option otherwise
SensitiveFor(term, opts) ==
    IF term.caseSensitive = "unset" THEN opts.caseSensitive
    ELSE term.caseSensitive = "true"

\* C14: a term that does not set caseSensitive is matched case-sensitively
\* when the option caseSensitive is true and case-insensitively when it is
\* false, and a term that sets it is matched by its own value: every marker
\* of the scanned paragraph wraps text that matches its term in that way,
\* and no plain text left in the paragraph matches a term in that way.
C14_OptionIsDefaultSensitivity ==
    lastCall = "init" =>
        LET p == dom.kids[1]
        IN  /\ \A m \in SeqToSet(Markers(dom)) :
                  MatchAt(TextContent(m.kids), 1, m.term.word,
                          ~SensitiveFor(m.term, options))
            /\ \A k \in 1..Len(p.kids) :
                  p.kids[k].type = "text" =>
                      \A t \in 1..Len(terms) : \A i \in 1..(Len(p.kids[k].data) + 1) :
                          ~MatchAt(p.kids[k].data, i, terms[t].word,
                                   ~SensitiveFor(terms[t], options))

-----------------------------------------------------------------------------
(* The open state of popups: claim C15, checked under SpecPopup.           *)

\* the attached popup elements that carry the class active
OpenPopups == {e \in SeqToSet(dom.kids) : IsPopup(e) /\ HasClass(e, << "active" >>)}

\* C15: at every instant at most one attached popup element carries the
\* active state, and a popup that was hidden or superseded never carries it:
\* the only popup that may be open is the active popup's element.
C15_OnlyActivePopupOpen ==
    /\ Cardinality(OpenPopups) <= 1
    /\ \A e \in OpenPopups : activePopup # NoPopup /\ e.uid = activePopup.element

-----------------------------------------------------------------------------
(* Deferred removal: claim C16, checked under SpecHide.                    *)

\* C16: hidePopup() with an active popup clears the Active Popup record at
\* once and schedules the removal of that popup's element; every attached
\* popup element is the active popup's or has a pending removal timer; a
\* removal timer that fires for a detached element changes nothing and raises
\* no fault, also when a new popup was shown in between; and every hidden
\* popup is eventually removed.
C16_HiddenPopupRemovedLater ==
    /\ [][/\ lastCall' = "hidePopup" =>
                /\ activePopup' = NoPopup
                /\ activePopup.element \in removalTimers'
                /\ PopupsIn(dom') = PopupsIn(dom)
          /\ lastCall' = "showPopup" /\ activePopup # NoPopup =>
                activePopup.element \in removalTimers'
          /\ \A p \in removalTimers \ PopupsIn(dom) :
                RemovalTimerFires /\ p \notin removalTimers' =>
                   /\ dom' = dom
                   /\ activePopup' = activePopup
                   /\ lastCall' # "fault"]_vars
    /\ [](\A p \in PopupsIn(dom) :
             \/ activePopup # NoPopup /\ p = activePopup.element
             \/ p \in removalTimers)
    /\ \A p \in PopupUids : (p \in removalTimers) ~> (p \notin PopupsIn(dom))

\* a removal timer has fired for a popup the host page had detached, while
\* the popup shown after it is the active one
C16_TimerAfterDetach ==
    /\ lastCall = "timer:detached"
    /\ activePopup # NoPopup
    /\ activePopup.element \in PopupsIn(dom)

-----------------------------------------------------------------------------
(* Grace-period timers: claim C17, checked under SpecPopup.                *)

\* the handlers that call hidePopup(): showPopup() does so first of all
HideCalls == {"hidePopup", "hidePopup:none", "showPopup"}

\* C17: every hidePopup() call clears any pending grace-period timer of a
\* hover exit (the marker's and the popup's mouseleave timers), so that no
\* such timer armed before the call is left to fire against a popup shown
\* after it.
C17_HideClearsGraceTimers ==
    [][lastCall' \in HideCalls =>
          /\ ~hideTimeout'
          /\ strayTimers'.marker = {}
          /\ strayTimers'.popup = 0]_vars

-----------------------------------------------------------------------------
(* The observer's debounce: claim C18, checked under SpecBurst.            *)

\* the text nodes below el the walker of processExistingContent would accept
RECURSIVE AcceptedTexts(_, _, _)
AcceptedTexts(el, ancestorExcluded, selectors) ==
    Flatten(<<>> \o [k \in 1..Len(el.kids) |->
        IF el.kids[k].type = "text"
        THEN (IF AcceptNode(el.kids[k], ancestorExcluded \/ MatchesAny(el, selectors))
              THEN << el.kids[k] >> ELSE <<>>)
        ELSE IF el.kids[k].type = "elem"
        THEN AcceptedTexts(el.kids[k], ancestorExcluded \/ MatchesAny(el, selectors),
                           selectors)
        ELSE <<>>])

\* C18: bursts that add elements within one debounce window leave one rescan
\* pending, not one per burst; that rescan runs over the document as it is
\* when the timer fires, so that no text of any burst is left for the walker,
\* and leaves no rescan pending but the one its own markers cause; and every
\* burst the observer sees is eventually followed by a rescan.
C18_BurstsCollapseIntoOneRescan ==
    /\ [](Cardinality(processingTimeout) <= 1)
    /\ [][/\ (lastCall' = "addContent" /\ observing)
                => Cardinality(processingTimeout') = 1
          /\ lastCall' = "rescan" =>
                /\ AcceptedTexts(dom', FALSE, options.excludeSelectors) = <<>>
                /\ Cardinality(processingTimeout') =
                      IF AddedElements(dom, dom') THEN 1 ELSE 0]_vars
    /\ (lastCall = "addContent" /\ observing) ~> (lastCall = "rescan")

\* two bursts have arrived since the last scan and one rescan is pending
C18_TwoBurstsOnePending ==
    /\ lastCall = "addContent"
    /\ observing
    /\ terms # <<>>
    /\ Cardinality(processingTimeout) = 1
    /\ Len(AcceptedTexts(dom, FALSE, options.excludeSelectors)) >= 2


-----------------------------------------------------------------------------
(* Entries with an empty word: claim C19, checked under SpecEmpty.         *)

\* the index without its entries of an empty word
WithWords(index) == SelectSeq(index, LAMBDA t : t.word # <<>>)

\* C19: an entry whose word is the empty string never matches: after the scan
\* of init() no marker belongs to such an entry, and the document is the one
\* the scan would have made of the page with the same index without its
\* entries of an empty word (the same markers, the same text).
C19_EmptyWordNeverMatches ==
    lastCall = "init" =>
        /\ \A m \in SeqToSet(Markers(dom)) : m.term.word # <<>>
        /\ dom = ProcessExistingContent(Body(<< Block("p", pageText) >>),
                                        WithWords(terms), options, isTouch, {})


-----------------------------------------------------------------------------
(* Text the walker rejects: claim C20, checked under SpecSkip.             *)

\* n with every text node below it in this.processedNodes
RECURSIVE Recorded(_)
Recorded(n) ==
    IF n.type = "text" THEN [n EXCEPT !.processed = TRUE]
    ELSE IF n.type = "elem"
    THEN [n EXCEPT !.kids = <<>> \o [k \in 1..Len(n.kids) |-> Recorded(n.kids[k])]]
    ELSE n

\* the selectors whose evaluation does not throw
ValidSelectors(selectors) ==
    SelectSeq(selectors, LAMBDA sel : sel.kind \in {"tag", "class", "attr"})

\* C20: a text node that is shorter than 2 characters once trimmed, or whose
\* parent is excluded by itself or by an ancestor (script, style, code, pre, a
\* marker, a popup, a processed element), gets no marker and is recorded as
\* processed without being scanned: a scan leaves a child of the body in which
\* the walker accepts no text with the markers it had and with every text
\* node recorded; and a selector that throws excludes nothing: the scan makes
\* what it would make without that selector.
C20_SkippedTextRecorded ==
    [][lastCall' \in {"init", "rescan", "refresh"} =>
          /\ \A k \in 1..Len(dom.kids) :
                (/\ dom.kids[k].type = "elem"
                 /\ AcceptedTexts(dom.kids[k],
                                  MatchesAny(dom, options.excludeSelectors),
                                  options.excludeSelectors) = <<>>)
                => /\ Markers(Body(<< dom'.kids[k] >>)) = Markers(Body(<< dom.kids[k] >>))
                   /\ dom'.kids[k] = Recorded(dom.kids[k])
          /\ dom' = ProcessExistingContent(
                        dom, terms',
                        [options EXCEPT !.excludeSelectors = ValidSelectors(@)],
                        isTouch, UsedUids(State))]_vars


-----------------------------------------------------------------------------
(* The scan loop comes to rest: claim C21, checked under SpecQuiet.        *)

\* C21: after finitely many changes by the host the chain of scan, observed
\* markers and debounced rescan ends, for every exclusion list: a rescan that
\* follows a scan with no change by the host in between creates no marker and
\* leaves no timer pending, and in the end no rescan timer is pending.
C21_ScanLoopComesToRest ==
    /\ [][(lastCall \in ScanCalls /\ lastCall' = "rescan")
             => /\ Len(Markers(dom')) = Len(Markers(dom))
                /\ processingTimeout' = {}]_vars
    /\ <>[](processingTimeout = {})

-----------------------------------------------------------------------------
(* The popup's elements and the scan: claim C22, checked under SpecTip.    *)

\* the element announceToScreenReader appends
IsAnnouncement(n) == HasClass(n, << "sr", "-", "only" >>)

\* the markers inside the popups and announcements attached to the body
MarkersInPopupParts(body) ==
    Markers(Body(SelectSeq(body.kids, LAMBDA n : IsPopup(n) \/ IsAnnouncement(n))))

\* C22: showPopup and hidePopup leave the markers of the document as they
\* are, and no marker is ever created inside a popup or inside a screen
\* reader announcement, also when the observer's rescan runs while they are
\* attached.
C22_PopupPartsGetNoMarker ==
    [][/\ lastCall' \in {"showPopup", "hidePopup", "hidePopup:none"}
             => MarkerIds(dom') = MarkerIds(dom)
       /\ MarkersInPopupParts(dom') = <<>>]_vars

\* a rescan has run while a popup and its announcement were attached
C22_RescanWithPopupAttached ==
    /\ lastCall = "rescan"
    /\ PopupsIn(dom) # {}
    /\ \E k \in 1..Len(dom.kids) : IsAnnouncement(dom.kids[k])

-----------------------------------------------------------------------------
(* destroy() and what comes after it: claim C23, checked under SpecFinal.  *)

\* nothing of the glossary is in the document
NothingLeft ==
    /\ Markers(dom) = <<>>
    /\ PopupsIn(dom) = {}
    /\ ~stylesheet

\* C23: once destroy() has returned, no marker, no popup and no injected
\* stylesheet exists at any later instant, whatever fires afterwards: the
\* pending fetch, a pending rescan timer, the observer, the global handlers.
C23_DestroyIsFinal == [](lastCall = "destroy" => []NothingLeft)

\* destroy() has returned on a page that had markers and the stylesheet
C23_DestroyedAfterInit ==
    /\ lastCall = "destroy"
    /\ phase = "ready"
    /\ Markers(dom) = <<>>
    /\ ~stylesheet

-----------------------------------------------------------------------------
(* The marker's grace timer and another marker's popup: claim C24, checked *)
(* under SpecGrace.                                                        *)

\* the grace timer of marker a is pending, and the last handler has shown
\* the popup of another marker
ShownSinceLeaving(a) ==
    /\ a \in strayTimers.marker
    /\ lastCall = "showPopup"
    /\ activePopup # NoPopup
    /\ activePopup.trigger # a

\* C24: when the pointer has left marker A and, before A's grace timer
\* fires, a popup is shown for another marker B, then B's popup is still the
\* active popup after A's grace timer has fired.
C24_GraceTimerSparesOtherPopup ==
    [][\A a \in strayTimers.marker :
          (ShownSinceLeaving(a) /\ a \notin strayTimers'.marker)
             => activePopup' = activePopup]_vars

\* marker A's grace timer is pending while the popup of marker B, shown after
\* the pointer left A, is the active one
C24_OtherPopupShownInGrace == \E a \in strayTimers.marker : ShownSinceLeaving(a)

=============================================================================
